---- MODULE Spec2Model ----
(***************************************************************************)
(* SenSIt secrets scanner: the Secret record, the Confidence (AI)          *)
(* Validator, the Live (API) Validator, the deduplicator and the scan      *)
(* pipeline, as state machines over a heap of Secret objects.              *)
(*                                                                         *)
(* Python lists hold references: a list of secrets is a sequence of heap   *)
(* indices, and a validator mutates heap[id] in place.                     *)
(***************************************************************************)
EXTENDS Integers, Sequences, FiniteSets, TLC

(***************************************************************************)
(* Bounds of the model.                                                    *)
(***************************************************************************)
MaxSecrets == 2        \* records handed to a validator harness
MaxBatchSize == 2      \* largest configured provider batch_size

(***************************************************************************)
(* Enumerations of models/secret.py.                                       *)
(***************************************************************************)
Statuses == {"UNVERIFIED", "POSSIBLE", "LIKELY", "CONFIRMED"}
Severities == {"LOW", "MEDIUM", "HIGH", "CRITICAL"}

\* Rank of a status in UNVERIFIED < POSSIBLE < LIKELY < CONFIRMED.
StatusRank(s) ==
    CASE s = "UNVERIFIED" -> 0
      [] s = "POSSIBLE" -> 1
      [] s = "LIKELY" -> 2
      [] s = "CONFIRMED" -> 3

\* Rank of a severity in LOW < MEDIUM < HIGH < CRITICAL.
SeverityRank(s) ==
    CASE s = "LOW" -> 0
      [] s = "MEDIUM" -> 1
      [] s = "HIGH" -> 2
      [] s = "CRITICAL" -> 3

\* The rule set (signatures/patterns.yml is configuration): rule name to
\* its severity.  A rule without a severity entry gets MEDIUM.
patterns ==
    [github_token |-> "HIGH",
     stripe_secret_key |-> "CRITICAL",
     aws_access_key |-> "LOW",
     generic_api_key |-> "MEDIUM"]

RuleNames == DOMAIN patterns

\* Type tag of the Entropy Analyzer's records.
HighEntropyType == "high_entropy_string"

Types == RuleNames \cup {HighEntropyType}

\* The characters of the values of the model.  In each of them every
\* character's count divides the length into a power of two, so that the
\* floating-point terms of calculate_entropy are exact.
chars(value) ==
    CASE value = "A" ->
             <<"0", "1", "2", "3", "4", "5", "6", "7",
               "8", "9", "a", "b", "c", "d", "e", "f">>
      [] value = "B" ->
             <<"g", "h", "i", "j", "k", "l", "m", "n",
               "o", "p", "q", "r", "s", "t", "u", "v">>
      [] value = "Y" ->
             <<"a", "a", "a", "a", "b", "b", "b", "b",
               "c", "c", "c", "c", "d", "d", "d", "d">>
      [] value = "Z" ->
             <<"a", "a", "a", "a", "a", "a", "a", "a",
               "a", "a", "a", "a", "a", "a", "a", "a">>

\* math.log2 of a power of two.
RECURSIVE log2(_)
log2(n) == IF n <= 1 THEN 0 ELSE 1 + log2(n \div 2)

\* The loop `for count in frequencies.values()` over the characters cs.
RECURSIVE entropy_sum(_, _, _)
entropy_sum(frequencies, cs, data_len) ==
    IF cs = {} THEN 0
    ELSE LET c == CHOOSE x \in cs : TRUE
         IN (100 * frequencies[c] * log2(data_len \div frequencies[c])) \div data_len
            + entropy_sum(frequencies, cs \ {c}, data_len)

\* EntropyAnalyzer.calculate_entropy(data), in hundredths of a bit.
calculate_entropy(data) ==
    IF data = <<>> THEN 0
    ELSE LET frequencies ==
                 [c \in {data[i] : i \in DOMAIN data} |->
                     Cardinality({i \in DOMAIN data : data[i] = c})]
         IN entropy_sum(frequencies, DOMAIN frequencies, Len(data))

\* Secret(...) with the dataclass defaults of the entropy and the validation
\* fields.  The context is the lines around line_number of the content at
\* location.  api_valid is the tri-state None / True / False.
Secret(type, value, location, line_number, regex_match, severity) ==
    [type |-> type,
     value |-> value,
     location |-> location,
     line_number |-> line_number,
     context |-> <<location, line_number>>,
     entropy |-> 0,
     regex_match |-> regex_match,
     ai_confidence |-> 0,
     ai_reasoning |-> "",
     api_valid |-> "None",
     api_details |-> "{}",
     severity |-> severity,
     status |-> "UNVERIFIED"]

\* A record as PatternMatcher.find_matches creates it.
pattern_secret(rule, value, location, line_number) ==
    Secret(rule, value, location, line_number, TRUE, patterns[rule])

\* A record as EntropyAnalyzer.find_high_entropy_strings creates it.
entropy_secret(value, location, line_number) ==
    [Secret(HighEntropyType, value, location, line_number, FALSE, "MEDIUM")
        EXCEPT !.entropy = calculate_entropy(chars(value))]

\* EntropyAnalyzer.analyze_secret(secret)
analyze_secret(s) ==
    [s EXCEPT !.entropy = calculate_entropy(chars(s.value))]

\* A refresh that is never applied.
fill_entropy_never(recs) ==
    recs

\* `for secret in secrets: if secret.entropy == 0: analyze_secret(secret)`
fill_entropy(recs) ==
    [k \in DOMAIN recs |->
        IF recs[k].entropy = 0 THEN analyze_secret(recs[k]) ELSE recs[k]]

(***************************************************************************)
(* Confidence Validator (validation/ai_validator.py).                      *)
(***************************************************************************)
\* Confidence values a provider answers with in the model.
Confidences == {29, 30, 59, 60, 84, 85}

\* Stands for a JSON "confidence" that is not a number (a string, null).
NonNumeric == 0 - 1000

\* One element of the provider's "secrets" list:
\*   score          {"confidence": c, "reasoning": "..."}
\*   no_keys        {}  (both .get defaults apply)
\*   bad_confidence {"confidence": "high", ...}: stored, then the comparison
\*                  with 30 raises TypeError
\*   not_object     a string or number: .get raises AttributeError
Items ==
    [kind : {"score"}, confidence : Confidences]
    \cup [kind : {"no_keys", "bad_confidence", "not_object"}, confidence : {0}]

\* ai_result.get('confidence', 0)
item_confidence(item) ==
    CASE item.kind = "score" -> item.confidence
      [] item.kind = "no_keys" -> 0
      [] item.kind = "bad_confidence" -> NonNumeric

\* ai_result.get('reasoning', '')
item_reasoning(item) ==
    IF item.kind = "no_keys" THEN "" ELSE "why"

SeqsUpTo(S, n) == UNION {[1..k -> S] : k \in 0..n}

\* What one provider round trip produces for a batch of n records:
\*   raise        the API call raises
\*   unparsable   the text is not JSON (every parse strategy fails)
\*   empty_object the JSON object {} (falsy)
\*   non_object   JSON that is not an object, e.g. a non-empty array
\*   object       a JSON object; items is its "secrets" list ([] if absent)
\* The loop stops at the first item that raises, so the items that would
\* follow it are never read and are left out.
Responses(n) ==
    [kind : {"raise", "unparsable", "empty_object", "non_object"}, items : {<<>>}]
    \cup [kind : {"object"},
          items : {s \in SeqsUpTo(Items, n) :
                      \A k \in 1..(Len(s) - 1) :
                         s[k].kind \in {"score", "no_keys"}}]

NoResponse == [kind |-> "none", items |-> <<>>]

\* _call_openai_batch / _call_gemini_batch / _call_ollama_batch: every
\* exception of the call and of the parse is caught and None is returned.
call_batch(response) ==
    IF response.kind \in {"raise", "unparsable"}
    THEN [kind |-> "None", items |-> <<>>]
    ELSE response

\* Truthiness of `result` in `if result:`.
truthy(result) == result.kind \in {"non_object", "object"}

\* status_for with the lower bound of each band exclusive.
status_for_exclusive(c) ==
    IF c <= 30 THEN "UNVERIFIED"
    ELSE IF c <= 60 THEN "POSSIBLE"
    ELSE IF c <= 85 THEN "LIKELY"
    ELSE "CONFIRMED"

\* The threshold chain of validate_secret and validate_batch.
status_for(c) ==
    IF c < 30 THEN "UNVERIFIED"
    ELSE IF c < 60 THEN "POSSIBLE"
    ELSE IF c < 85 THEN "LIKELY"
    ELSE "CONFIRMED"

\* The loop `for j, secret in enumerate(batch)` of validate_batch, from
\* position j on.  An exception leaves the loop with what was appended so far.
RECURSIVE update_batch(_, _, _, _, _)
update_batch(h, batch, results, j, val) ==
    IF j > Len(batch)
    THEN [heap |-> h, validated |-> val, raised |-> FALSE]
    ELSE LET id == batch[j] IN
         IF j <= Len(results)
         THEN LET item == results[j] IN
              IF item.kind = "not_object"
              THEN [heap |-> h, validated |-> val, raised |-> TRUE]
              ELSE LET c == item_confidence(item)
                       h1 == [h EXCEPT ![id].ai_confidence = c,
                                       ![id].ai_reasoning = item_reasoning(item)]
                   IN IF c = NonNumeric
                      THEN [heap |-> h1, validated |-> val, raised |-> TRUE]
                      ELSE update_batch([h1 EXCEPT ![id].status = status_for(c)],
                                        batch, results, j + 1, Append(val, id))
         ELSE update_batch(h, batch, results, j + 1, Append(val, id))

\* batch_try that clears the score of the records the answer has no item
\* for.
batch_try_clears_unanswered(h, batch, response, val) ==
    LET result == call_batch(response) IN
    IF truthy(result)
    THEN IF result.kind = "non_object"
         THEN [heap |-> h, validated |-> val, raised |-> TRUE]
         ELSE LET r == update_batch(h, batch, result.items, 1, val)
              IN [r EXCEPT !.heap =
                     [id \in DOMAIN h |->
                         IF \E j \in DOMAIN batch :
                               batch[j] = id /\ j > Len(result.items)
                         THEN [r.heap[id] EXCEPT !.ai_confidence = 0,
                                                 !.ai_reasoning = "",
                                                 !.status = "UNVERIFIED"]
                         ELSE r.heap[id]]]
    ELSE [heap |-> h, validated |-> val \o batch, raised |-> FALSE]

\* batch_try that resets the status of a batch whose call failed.
batch_try_resets_failed(h, batch, response, val) ==
    LET result == call_batch(response) IN
    IF truthy(result)
    THEN IF result.kind = "non_object"
         THEN [heap |-> h, validated |-> val, raised |-> TRUE]
         ELSE update_batch(h, batch, result.items, 1, val)
    ELSE [heap |-> [id \in DOMAIN h |->
                       IF \E j \in DOMAIN batch : batch[j] = id
                       THEN [h[id] EXCEPT !.status = "UNVERIFIED"]
                       ELSE h[id]],
          validated |-> val \o batch, raised |-> FALSE]

\* batch_try without the `else: validated.extend(batch)` of a failed call.
batch_try_drops_failed(h, batch, response, val) ==
    LET result == call_batch(response) IN
    IF truthy(result)
    THEN IF result.kind = "non_object"
         THEN [heap |-> h, validated |-> val, raised |-> TRUE]
         ELSE update_batch(h, batch, result.items, 1, val)
    ELSE [heap |-> h, validated |-> val, raised |-> FALSE]

\* The body of the try block of validate_batch for one batch.
batch_try(h, batch, response, val) ==
    LET result == call_batch(response) IN
    IF truthy(result)
    THEN IF result.kind = "non_object"
         THEN [heap |-> h, validated |-> val, raised |-> TRUE]
         ELSE update_batch(h, batch, result.items, 1, val)
    ELSE [heap |-> h, validated |-> val \o batch, raised |-> FALSE]

\* validate_batch without its try/except: an exception leaves the loop.
batch_except_reraises(h, batch, response, val) ==
    batch_try(h, batch, response, val)

\* try/except of validate_batch for one batch: on any exception the whole
\* batch is appended to what the loop had already appended.
batch_except(h, batch, response, val) ==
    LET r == batch_try(h, batch, response, val) IN
    IF r.raised
    THEN [heap |-> r.heap, validated |-> r.validated \o batch, raised |-> FALSE]
    ELSE r

\* validate_secret of the AI validator on heap[id]: the try block.  The
\* response of a single call is the scored object itself (items[1]).
ai_validate_secret_try(h, id, response) ==
    LET result == call_batch(response) IN
    IF truthy(result)
    THEN IF result.kind = "non_object"
         THEN [heap |-> h, raised |-> TRUE]
         ELSE LET item == result.items[1]
                  c == item_confidence(item)
                  h1 == [h EXCEPT ![id].ai_confidence = c,
                                  ![id].ai_reasoning = item_reasoning(item)]
              IN IF c = NonNumeric
                 THEN [heap |-> h1, raised |-> TRUE]
                 ELSE [heap |-> [h1 EXCEPT ![id].status = status_for(c)],
                       raised |-> FALSE]
    ELSE [heap |-> h, raised |-> FALSE]

\* validate_secret of the AI validator: `except Exception` logs and the
\* secret is returned.
ai_validate_secret(h, id, response) ==
    LET r == ai_validate_secret_try(h, id, response) IN
    [heap |-> r.heap, raised |-> FALSE]

\* Responses to the single-secret prompt.
SingleResponses ==
    [kind : {"raise", "unparsable", "empty_object", "non_object"}, items : {<<>>}]
    \cup {[kind |-> "object", items |-> <<it>>] :
             it \in {i \in Items : i.kind # "not_object"}}

(***************************************************************************)
(* Live Validator (validation/api_validator.py).                           *)
(***************************************************************************)
\* validator_map.get(secret.type): the checker of a type, "None" if absent.
validator_map(type) ==
    CASE type \in {"aws_access_key", "aws_secret_key"} -> "_validate_aws"
      [] type \in {"stripe_secret_key", "stripe_restricted_key"} -> "_validate_stripe"
      [] type \in {"github_token", "github_oauth"} -> "_validate_github"
      [] type \in {"twilio_account_sid", "twilio_auth_token"} -> "_validate_twilio"
      [] type = "slack_webhook" -> "_validate_slack_webhook"
      [] type = "slack_token" -> "_validate_slack_token"
      [] OTHER -> "None"

\* What a checker hands back to validate_secret.
\*   valid       (True, {...})
\*   rejected    (False, {'error': ...}): the service answered no, or the
\*               check is not implemented
\*   failed      (False, {'error': str(e)}): a transport or authentication
\*               exception, caught inside the checker
\*   raise       an exception leaves the checker
check_valid == [kind |-> "valid", is_valid |-> TRUE, details |-> "{valid: True}"]
check_rejected == [kind |-> "rejected", is_valid |-> FALSE, details |-> "{error: status}"]
check_failed == [kind |-> "failed", is_valid |-> FALSE, details |-> "{error: str(e)}"]
check_raise == [kind |-> "raise", is_valid |-> FALSE, details |-> "{}"]
check_none == [kind |-> "none", is_valid |-> FALSE, details |-> "{}"]

\* Outcomes of each checker.  _validate_aws and _validate_twilio always
\* answer False; _validate_stripe's handler evaluates
\* stripe.error.AuthenticationError, which can itself raise.
checker_outcomes(checker) ==
    CASE checker = "_validate_aws" -> {check_rejected}
      [] checker = "_validate_twilio" -> {check_rejected}
      [] checker = "_validate_stripe" -> {check_valid, check_failed, check_raise}
      [] checker = "_validate_github" -> {check_valid, check_rejected, check_failed}
      [] checker = "_validate_slack_webhook" -> {check_valid, check_rejected, check_failed}
      [] checker = "_validate_slack_token" -> {check_valid, check_rejected, check_failed}
      [] OTHER -> {check_none}

bool_str(b) == IF b THEN "True" ELSE "False"

\* validate_secret that also raises the confidence of a confirmed record.
api_validate_secret_writes_confidence(h, id, outcome) ==
    IF validator_map(h[id].type) # "None"
    THEN IF outcome.kind = "raise"
         THEN [heap |-> [h EXCEPT ![id].api_valid = "None"], raised |-> FALSE]
         ELSE LET h1 == [h EXCEPT ![id].api_valid = bool_str(outcome.is_valid),
                                  ![id].api_details = outcome.details]
              IN IF outcome.is_valid
                 THEN [heap |-> [h1 EXCEPT ![id].status = "CONFIRMED",
                                           ![id].severity = "CRITICAL",
                                           ![id].ai_confidence = 100],
                       raised |-> FALSE]
                 ELSE [heap |-> h1, raised |-> FALSE]
    ELSE [heap |-> h, raised |-> FALSE]

\* validate_secret that confirms the status but leaves the severity.
api_validate_secret_keeps_severity(h, id, outcome) ==
    IF validator_map(h[id].type) # "None"
    THEN IF outcome.kind = "raise"
         THEN [heap |-> [h EXCEPT ![id].api_valid = "None"], raised |-> FALSE]
         ELSE LET h1 == [h EXCEPT ![id].api_valid = bool_str(outcome.is_valid),
                                  ![id].api_details = outcome.details]
              IN IF outcome.is_valid
                 THEN [heap |-> [h1 EXCEPT ![id].status = "CONFIRMED"],
                       raised |-> FALSE]
                 ELSE [heap |-> h1, raised |-> FALSE]
    ELSE [heap |-> h, raised |-> FALSE]

\* validate_secret without its try/except: a raising checker fails the task.
api_validate_secret_no_catch(h, id, outcome) ==
    IF validator_map(h[id].type) # "None"
    THEN IF outcome.kind = "raise"
         THEN [heap |-> h, raised |-> TRUE]
         ELSE LET h1 == [h EXCEPT ![id].api_valid = bool_str(outcome.is_valid),
                                  ![id].api_details = outcome.details]
              IN IF outcome.is_valid
                 THEN [heap |-> [h1 EXCEPT ![id].status = "CONFIRMED",
                                           ![id].severity = "CRITICAL"],
                       raised |-> FALSE]
                 ELSE [heap |-> h1, raised |-> FALSE]
    ELSE [heap |-> h, raised |-> FALSE]

\* validate_secret that takes a rejected credential back to UNVERIFIED.
api_validate_secret_resets_status(h, id, outcome) ==
    IF validator_map(h[id].type) # "None"
    THEN IF outcome.kind = "raise"
         THEN [heap |-> [h EXCEPT ![id].api_valid = "None"], raised |-> FALSE]
         ELSE LET h1 == [h EXCEPT ![id].api_valid = bool_str(outcome.is_valid),
                                  ![id].api_details = outcome.details]
              IN IF outcome.is_valid
                 THEN [heap |-> [h1 EXCEPT ![id].status = "CONFIRMED",
                                           ![id].severity = "CRITICAL"],
                       raised |-> FALSE]
                 ELSE [heap |-> [h1 EXCEPT ![id].status = "UNVERIFIED"],
                       raised |-> FALSE]
    ELSE [heap |-> h, raised |-> FALSE]

\* validate_secret that marks a record without a checker as not valid.
api_validate_secret_marks_unchecked(h, id, outcome) ==
    IF validator_map(h[id].type) # "None"
    THEN IF outcome.kind = "raise"
         THEN [heap |-> [h EXCEPT ![id].api_valid = "None"], raised |-> FALSE]
         ELSE LET h1 == [h EXCEPT ![id].api_valid = bool_str(outcome.is_valid),
                                  ![id].api_details = outcome.details]
              IN IF outcome.is_valid
                 THEN [heap |-> [h1 EXCEPT ![id].status = "CONFIRMED",
                                           ![id].severity = "CRITICAL"],
                       raised |-> FALSE]
                 ELSE [heap |-> h1, raised |-> FALSE]
    ELSE [heap |-> [h EXCEPT ![id].api_valid = "False"], raised |-> FALSE]

\* APIValidator.validate_secret on heap[id], the checker answering outcome.
api_validate_secret(h, id, outcome) ==
    IF validator_map(h[id].type) # "None"
    THEN IF outcome.kind = "raise"
         THEN [heap |-> [h EXCEPT ![id].api_valid = "None"], raised |-> FALSE]
         ELSE LET h1 == [h EXCEPT ![id].api_valid = bool_str(outcome.is_valid),
                                  ![id].api_details = outcome.details]
              IN IF outcome.is_valid
                 THEN [heap |-> [h1 EXCEPT ![id].status = "CONFIRMED",
                                           ![id].severity = "CRITICAL"],
                       raised |-> FALSE]
                 ELSE [heap |-> h1, raised |-> FALSE]
    ELSE [heap |-> h, raised |-> FALSE]

(***************************************************************************)
(* State.                                                                  *)
(***************************************************************************)
VARIABLES
    heap,           \* the Secret objects, addressed by index
    provider,       \* AIValidator.provider
    client,         \* AIValidator.client is not None
    batch_size,     \* AIValidator.batch_size
    ai_pc,          \* position in AIValidator.validate_batch / validate_secret
    ai_secrets,     \* validate_batch: the argument `secrets`
    ai_i,           \* validate_batch: the loop variable i
    validated,      \* validate_batch: the list `validated` (the return value)
    batch,          \* validate_batch: `batch`; validate_secret: the secret
    result,         \* the provider's answer to the last prompt
    provider_calls, \* provider round trips since the entry of the call
    api_pc,         \* position in APIValidator.validate_batch
    api_secrets,    \* APIValidator.validate_batch: the argument `secrets`
    tasks,          \* one validate_secret task per position of api_secrets
    enable_ai,      \* SecretsScanner.enable_ai
    enable_api,     \* SecretsScanner.enable_api
    ai_threshold,   \* SecretsScanner.ai_threshold
    scan_pc,        \* position in scan_url / scan_file / scan_directory
    entry,          \* which scan entry point runs
    units,          \* the content units of the target, in scan order
    unit_i,         \* number of units handled so far
    all_secrets,    \* all_secrets / secrets of the scan and of _validate_secrets
    high_confidence,\* _validate_secrets: the list handed to the live stage
    finding,        \* the Finding under construction
    error_logged,   \* the outer except of the scan call ran (logger.error)
    exit_code,      \* the argument of sys.exit in main, NoExit while running
    dedup_pc,       \* _deduplicate_secrets: number of calls made
    dedup_arg,      \* _deduplicate_secrets: the argument `secrets`
    dedup_ret,      \* _deduplicate_secrets: the returned list `unique`
    match_pc,       \* the extraction engine whose call is under observation
    match_arg,      \* its inputs: self.patterns, the content, the location
    match_ret,      \* its outcome: the returned list, or the exception raised
    max_depth,      \* WebCrawler: discovery.max_depth
    max_pages,      \* WebCrawler: discovery.max_pages
    web,            \* the site: for each URL the same-domain URLs its page links to
    crawl_pc,       \* WebCrawler.crawl: "idle", "loop", "returned"
    visited_urls,   \* WebCrawler.visited_urls
    pages_content,  \* crawl: the dict url -> content under construction
    to_visit,       \* crawl: the queue of (url, depth)
    fetches         \* the number of _fetch_page calls made for each URL

config_vars == <<provider, client, batch_size, enable_ai, enable_api, ai_threshold>>
ai_vars == <<ai_pc, ai_secrets, ai_i, validated, batch, result, provider_calls>>
api_vars == <<api_pc, api_secrets, tasks>>
scan_vars == <<scan_pc, entry, units, unit_i, all_secrets, high_confidence, finding>>
main_vars == <<error_logged, exit_code>>
dedup_vars == <<dedup_pc, dedup_arg, dedup_ret>>
match_vars == <<match_pc, match_arg, match_ret>>
crawl_vars == <<max_depth, max_pages, web, crawl_pc, visited_urls, pages_content,
                to_visit, fetches>>
vars == <<heap, config_vars, ai_vars, api_vars, scan_vars, main_vars, dedup_vars,
          match_vars, crawl_vars>>

Providers == {"openai", "gemini", "ollama"}

\* Provider names of the configurations explored.  The three known
\* providers take the same path through validate_batch and validate_secret
\* (their _call_* methods differ only in how the text is parsed), so one of
\* them stands for all three.
ConfiguredProviders == {"openai", "unknown"}

\* config.get('validation.ai_confidence_threshold', 70)
default_threshold == 70

\* Configured thresholds: the default, and one that a scored confidence
\* meets exactly.
Thresholds == {60, default_threshold}

\* AIValidator.__init__: a client exists only for a known provider whose
\* initialisation succeeded.
ai_init ==
    /\ provider \in ConfiguredProviders
    /\ client \in BOOLEAN
    /\ provider \notin Providers => ~client
    /\ batch_size \in 1..MaxBatchSize

ai_idle ==
    /\ ai_pc = "idle"
    /\ ai_secrets = <<>>
    /\ ai_i = 0
    /\ validated = <<>>
    /\ batch = <<>>
    /\ result = NoResponse
    /\ provider_calls = 0

api_idle ==
    /\ api_pc = "idle"
    /\ api_secrets = <<>>
    /\ tasks = <<>>

\* A task that has not run: no checker outcome, nothing returned.
NoRecord == 0
pending == [state |-> "pending", outcome |-> check_none, ret |-> NoRecord]

\* Finding(target) with its dataclass defaults.
Finding ==
    [secrets |-> <<>>, total_secrets_found |-> 0, total_files_scanned |-> 0]

\* No scan is running.
scan_idle ==
    /\ scan_pc = "idle"
    /\ entry = "none"
    /\ units = <<>>
    /\ unit_i = 0
    /\ all_secrets = <<>>
    /\ high_confidence = <<>>
    /\ finding = Finding

\* The process has not left main.
NoExit == 0 - 1

main_idle ==
    /\ error_logged = FALSE
    /\ exit_code = NoExit

\* No call of _deduplicate_secrets is under observation.
dedup_idle ==
    /\ dedup_pc = 0
    /\ dedup_arg = <<>>
    /\ dedup_ret = <<>>

\* No call of an extraction engine is under observation.
match_idle ==
    /\ match_pc = "idle"
    /\ match_arg = <<>>
    /\ match_ret = <<>>

\* No crawl is under observation: a crawler with the default limits and an
\* empty site.
default_max_depth == 2
default_max_pages == 50
crawl_idle ==
    /\ max_depth = default_max_depth
    /\ max_pages = default_max_pages
    /\ web = <<>>
    /\ crawl_pc = "idle"
    /\ visited_urls = {}
    /\ pages_content = <<>>
    /\ to_visit = <<>>
    /\ fetches = <<>>

(***************************************************************************)
(* AIValidator.validate_batch, one action per batch.                       *)
(***************************************************************************)
\* Entry of validate_batch(secrets): without a client the argument is
\* returned as it is.
validate_batch_call(secrets) ==
    /\ ai_secrets' = secrets
    /\ ai_i' = 0
    /\ batch' = <<>>
    /\ result' = NoResponse
    /\ provider_calls' = 0
    /\ IF ~client
       THEN ai_pc' = "returned" /\ validated' = secrets
       ELSE ai_pc' = "loop" /\ validated' = <<>>
    /\ UNCHANGED <<heap, config_vars>>

\* total_batches = (len(secrets) + self.batch_size - 1) // self.batch_size
total_batches == (Len(ai_secrets) + batch_size - 1) \div batch_size

Min(a, b) == IF a < b THEN a ELSE b

\* secrets[i:i + batch_size]
slice(secrets, i, n) == SubSeq(secrets, i + 1, Min(i + n, Len(secrets)))

\* One iteration of `for i in range(0, len(secrets), self.batch_size)`.
validate_batch_step(response) ==
    /\ ai_pc = "loop"
    /\ ai_i < Len(ai_secrets)
    /\ LET b == slice(ai_secrets, ai_i, batch_size)
           r == IF provider \in Providers
                THEN batch_except(heap, b, response, validated)
                ELSE [heap |-> heap, validated |-> validated \o b, raised |-> FALSE]
       IN /\ batch' = b
          /\ result' = response
          /\ heap' = r.heap
          /\ validated' = r.validated
          /\ ai_pc' = IF r.raised THEN "raised" ELSE "loop"
    /\ provider_calls' = IF provider \in Providers
                         THEN provider_calls + 1 ELSE provider_calls
    /\ ai_i' = ai_i + batch_size
    /\ UNCHANGED <<ai_secrets, config_vars>>

\* A return that does not wait for the last batch.
validate_batch_return_early ==
    /\ ai_pc = "loop"
    /\ ai_pc' = "returned"
    /\ UNCHANGED <<heap, config_vars, ai_secrets, ai_i, validated, batch, result,
                   provider_calls>>

\* `return validated` after the last batch.
validate_batch_return ==
    /\ ai_pc = "loop"
    /\ ai_i >= Len(ai_secrets)
    /\ ai_pc' = "returned"
    /\ UNCHANGED <<heap, config_vars, ai_secrets, ai_i, validated, batch, result,
                   provider_calls>>

\* AIValidator.validate_secret(heap[id]).
validate_secret_call(id, response) ==
    /\ ai_secrets' = <<>>
    /\ ai_i' = 0
    /\ validated' = <<>>
    /\ batch' = <<id>>
    /\ IF client /\ provider \in Providers
       THEN LET r == ai_validate_secret(heap, id, response)
            IN /\ heap' = r.heap
               /\ result' = response
               /\ provider_calls' = 1
               /\ ai_pc' = IF r.raised THEN "raised" ELSE "returned_secret"
       ELSE /\ heap' = heap
            /\ result' = NoResponse
            /\ provider_calls' = 0
            /\ ai_pc' = "returned_secret"
    /\ UNCHANGED config_vars

(***************************************************************************)
(* Harness of the Confidence Validator: a caller holding a list of fresh   *)
(* records calls validate_batch and validate_secret any number of times.   *)
(***************************************************************************)
AITypes == {"github_token"}

fresh(type) ==
    IF type = HighEntropyType
    THEN entropy_secret("A", 1, 1)
    ELSE analyze_secret(pattern_secret(type, "A", 1, 1))

InitAI ==
    /\ heap \in SeqsUpTo({fresh(t) : t \in AITypes}, MaxSecrets)
    /\ ai_init
    /\ ai_idle
    /\ api_idle
    /\ scan_idle
    /\ main_idle
    /\ dedup_idle
    /\ match_idle
    /\ crawl_idle
    /\ enable_ai = TRUE
    /\ enable_api = TRUE
    /\ ai_threshold = default_threshold

ids == 1..Len(heap)

AIBatchCall ==
    /\ ai_pc \in {"idle", "returned", "returned_secret"}
    /\ validate_batch_call([k \in ids |-> k])
    /\ UNCHANGED <<api_vars, scan_vars, main_vars, dedup_vars, match_vars, crawl_vars>>

AIBatchStep ==
    /\ \E response \in Responses(Min(batch_size, Len(ai_secrets) - ai_i)) :
          validate_batch_step(response)
    /\ UNCHANGED <<api_vars, scan_vars, main_vars, dedup_vars, match_vars, crawl_vars>>

AIBatchReturn ==
    /\ validate_batch_return
    /\ UNCHANGED <<api_vars, scan_vars, main_vars, dedup_vars, match_vars, crawl_vars>>

AISecretCall ==
    /\ ai_pc \in {"idle", "returned", "returned_secret"}
    /\ \E id \in ids : \E response \in SingleResponses :
          validate_secret_call(id, response)
    /\ UNCHANGED <<api_vars, scan_vars, main_vars, dedup_vars, match_vars, crawl_vars>>

NextAI == AIBatchCall \/ AIBatchStep \/ AIBatchReturn \/ AISecretCall

SpecAI == InitAI /\ [][NextAI]_vars

(***************************************************************************)
(* The Confidence Validator against a provider that answers with well-     *)
(* formed results in any order, for any subset of the ids of the prompt,   *)
(* and with confidences inside and outside 0..100.                         *)
(***************************************************************************)
\* Confidences of these answers: below 0, inside the range, above 100.
WideConfidences == {0 - 5, 30, 150}

\* A result object {"id": i, "confidence": c, "reasoning": "..."} for one of
\* the n ids 0..n-1 that _create_batch_prompt gave the records.
IdItems(n) ==
    [kind : {"score"}, confidence : WideConfidences, id : 0..(n - 1)]

\* A parsed answer: results for distinct ids, in the provider's order.
IdResponses(n) ==
    {[kind |-> "object", items |-> s] :
        s \in {t \in SeqsUpTo(IdItems(n), n) :
                  \A i, j \in DOMAIN t : i # j => t[i].id # t[j].id}}

InitAIAnswers ==
    /\ InitAI
    /\ client
    /\ provider \in Providers

AnswersBatchStep ==
    /\ \E response \in IdResponses(Min(batch_size, Len(ai_secrets) - ai_i)) :
          validate_batch_step(response)
    /\ UNCHANGED <<api_vars, scan_vars, main_vars, dedup_vars, match_vars, crawl_vars>>

AnswersSecretCall ==
    /\ ai_pc \in {"idle", "returned", "returned_secret"}
    /\ \E id \in ids : \E response \in IdResponses(1) :
          /\ response.items # <<>>
          /\ validate_secret_call(id, response)
    /\ UNCHANGED <<api_vars, scan_vars, main_vars, dedup_vars, match_vars, crawl_vars>>

NextAIAnswers ==
    \/ AIBatchCall
    \/ AnswersBatchStep
    \/ AIBatchReturn
    \/ AnswersSecretCall

SpecAIAnswers == InitAIAnswers /\ [][NextAIAnswers]_vars

(***************************************************************************)
(* APIValidator.validate_batch: asyncio.gather over one validate_secret    *)
(* task per record.                                                        *)
(***************************************************************************)
\* tasks = [self.validate_secret(secret) for secret in secrets]
api_validate_batch_call(secrets) ==
    /\ api_pc' = "gather"
    /\ api_secrets' = secrets
    /\ tasks' = [k \in 1..Len(secrets) |-> pending]
    /\ UNCHANGED <<heap, config_vars>>

\* Task k runs validate_secret on its record; the checker answers outcome.
api_task(k, outcome) ==
    /\ api_pc = "gather"
    /\ tasks[k].state = "pending"
    /\ LET r == api_validate_secret(heap, api_secrets[k], outcome)
       IN /\ heap' = r.heap
          /\ tasks' = [tasks EXCEPT ![k] =
                          [state |-> IF r.raised THEN "failed" ELSE "done",
                           outcome |-> outcome,
                           ret |-> IF r.raised THEN NoRecord ELSE api_secrets[k]]]
    /\ UNCHANGED <<api_pc, api_secrets, config_vars>>

\* A gather that returns as soon as one task has completed.
api_gather_first_completed ==
    /\ api_pc = "gather"
    /\ \E k \in DOMAIN tasks : tasks[k].state # "pending"
    /\ api_pc' = "returned"
    /\ UNCHANGED <<heap, api_secrets, tasks, config_vars>>

\* The list asyncio.gather hands back: what each task returned, in the
\* order of the tasks.
gather_result ==
    [k \in DOMAIN tasks |-> tasks[k].ret]

\* `return await asyncio.gather(*tasks)`: the results in argument order, or
\* the exception of a task that failed.
api_gather ==
    /\ api_pc = "gather"
    /\ \A k \in DOMAIN tasks : tasks[k].state # "pending"
    /\ api_pc' = IF \E k \in DOMAIN tasks : tasks[k].state = "failed"
                 THEN "raised" ELSE "returned"
    /\ UNCHANGED <<heap, api_secrets, tasks, config_vars>>

(***************************************************************************)
(* Harness of the Live Validator: a caller holding records as extraction   *)
(* and the AI stage leave them calls validate_batch any number of times.   *)
(***************************************************************************)
LiveTypes == {"github_token", "stripe_secret_key", "aws_access_key", HighEntropyType}

\* Confidences the AI stage left on the records handed to the live stage
\* (0: never scored).
PriorConfidences == {0, 60}

after_ai(s, c) ==
    IF c = 0 THEN s
    ELSE [s EXCEPT !.ai_confidence = c, !.ai_reasoning = "why",
                   !.status = status_for(c)]

InitLive ==
    /\ heap \in SeqsUpTo({after_ai(fresh(t), c) :
                             t \in LiveTypes, c \in PriorConfidences}, MaxSecrets)
    /\ provider = "unknown"
    /\ client = FALSE
    /\ batch_size = 1
    /\ ai_idle
    /\ api_idle
    /\ scan_idle
    /\ main_idle
    /\ dedup_idle
    /\ match_idle
    /\ crawl_idle
    /\ enable_ai = TRUE
    /\ enable_api = TRUE
    /\ ai_threshold = default_threshold

LiveBatchCall ==
    /\ api_pc \in {"idle", "returned"}
    /\ api_validate_batch_call([k \in ids |-> k])
    /\ UNCHANGED <<ai_vars, scan_vars, main_vars, dedup_vars, match_vars, crawl_vars>>

LiveTask ==
    /\ \E k \in DOMAIN tasks :
          \E outcome \in checker_outcomes(validator_map(heap[api_secrets[k]].type)) :
             api_task(k, outcome)
    /\ UNCHANGED <<ai_vars, scan_vars, main_vars, dedup_vars, match_vars, crawl_vars>>

LiveGather ==
    /\ api_gather
    /\ UNCHANGED <<ai_vars, scan_vars, main_vars, dedup_vars, match_vars, crawl_vars>>

NextLive == LiveBatchCall \/ LiveTask \/ LiveGather

SpecLive == InitLive /\ [][NextLive]_vars

(***************************************************************************)
(* Extraction and deduplication (core/scanner.py, extraction/).            *)
(*                                                                         *)
(* The text of a content unit is represented by what the two engines find  *)
(* in it: the rule matches in find_matches order and the high-entropy      *)
(* tokens in find_high_entropy_strings order.  The k-th hit of an engine   *)
(* is on line k.                                                           *)
(***************************************************************************)
MaxUnits == 2          \* content units of one scan target
MaxHits == 2           \* hits of both engines over the whole target

ScanRules == {"github_token"}
Values == {"A"}
\* The location (file path, page URL) of the k-th unit: distinct per unit.
location_of(k) == k

PatternHits == [rule : ScanRules, value : Values]
EntropyHits == [value : Values]

\* What re.compile does with the `pattern` entry of a rule: "ok" compiles,
\* "invalid" raises re.error, "overflow" raises another exception
\* (OverflowError for a repetition count of 2^32 or more, RecursionError
\* for deep nesting), "absent" is a rule without a pattern entry.
PatternEntries == {"ok", "invalid", "overflow", "absent"}

\* The rule set as yaml.safe_load delivers patterns.yml: the rules in file
\* order, each with its name and its entries.
loaded_patterns ==
    LET order == <<"github_token", "stripe_secret_key", "aws_access_key",
                   "generic_api_key">>
    IN [i \in 1..Len(order) |->
           [name |-> order[i], pattern |-> "ok", severity |-> patterns[order[i]]]]

\* pattern_config.get('severity', 'MEDIUM') without the default.
rule_severity_as_given(rule) ==
    rule.severity

\* pattern_config.get('severity', 'MEDIUM')
rule_severity(rule) ==
    IF rule.severity = "absent" THEN "MEDIUM" ELSE rule.severity

\* `for match in regex.finditer(content)` of one rule: the rule's matches in
\* the order of the text, a record for each (the matches are those that
\* pass the rule's context keywords).
RECURSIVE rule_matches(_, _, _, _)
rule_matches(rule, content, location, k) ==
    IF k > Len(content.pattern) THEN <<>>
    ELSE IF content.pattern[k].rule = rule.name
         THEN <<Secret(rule.name, content.pattern[k].value, location, k, TRUE,
                       rule_severity(rule))>>
              \o rule_matches(rule, content, location, k + 1)
         ELSE rule_matches(rule, content, location, k + 1)

\* The loop of find_matches over self.patterns.items() from rule i on:
\* `if not pattern: continue`, re.compile inside `try`, `except re.error`
\* logs and goes on to the next rule; any other exception leaves the method.
RECURSIVE find_matches_loop(_, _, _, _, _)
find_matches_loop(rs, i, content, location, secrets) ==
    IF i > Len(rs) THEN [kind |-> "return", secrets |-> secrets]
    ELSE CASE rs[i].pattern = "absent" ->
                  find_matches_loop(rs, i + 1, content, location, secrets)
           [] rs[i].pattern = "ok" ->
                  find_matches_loop(rs, i + 1, content, location,
                      secrets \o rule_matches(rs[i], content, location, 1))
           [] rs[i].pattern = "invalid" ->
                  find_matches_loop(rs, i + 1, content, location, secrets)
           [] rs[i].pattern = "overflow" ->
                  [kind |-> "raise", secrets |-> <<>>]

\* PatternMatcher.find_matches(content, location) with the rule set rs.
find_matches_with(rs, content, location) ==
    find_matches_loop(rs, 1, content, location, <<>>)

\* PatternMatcher.find_matches(content, location) with the shipped rule set,
\* every expression of which compiles.
find_matches(content, location) ==
    find_matches_with(loaded_patterns, content, location).secrets

\* EntropyAnalyzer(min_entropy=3.5, min_length=12), the entropy in
\* hundredths of a bit.
min_entropy == 350
min_length == 12

\* EntropyAnalyzer.find_high_entropy_strings(content, location): of the
\* candidate tokens of the content, those long enough and of entropy at
\* least min_entropy.
find_high_entropy_strings(content, location) ==
    SelectSeq([k \in 1..Len(content.entropy) |->
                  entropy_secret(content.entropy[k].value, location, k)],
              LAMBDA s : /\ Len(chars(s.value)) >= min_length
                         /\ s.entropy >= min_entropy)

\* A key of the value alone.
key_value_only(s) ==
    <<s.value>>

\* A key that leaves the location out.
key_without_location(s) ==
    <<s.type, s.value>>

\* key = (secret.type, secret.value, secret.location)
key(s) ==
    <<s.type, s.value, s.location>>

\* The loop of _deduplicate_secrets from position k on.
RECURSIVE deduplicate_loop(_, _, _, _)
deduplicate_loop(recs, k, seen, unique) ==
    IF k > Len(recs) THEN unique
    ELSE IF key(recs[k]) \notin seen
         THEN deduplicate_loop(recs, k + 1, seen \cup {key(recs[k])},
                               Append(unique, recs[k]))
         ELSE deduplicate_loop(recs, k + 1, seen, unique)

\* A loop that starts at the second record.
deduplicate_secrets_skips_first(recs) ==
    deduplicate_loop(recs, 2, {}, <<>>)

\* SecretsScanner._deduplicate_secrets
deduplicate_secrets(recs) ==
    deduplicate_loop(recs, 1, {}, <<>>)

\* SecretsScanner._extract_secrets(content, location) with the rule set rs:
\* both engines, the entropy of the records that have none, deduplication.
\* An exception of find_matches leaves the method.
extract_secrets_with(rs, content, location) ==
    LET pattern_matches == find_matches_with(rs, content, location)
    IN IF pattern_matches.kind = "raise"
       THEN pattern_matches
       ELSE [kind |-> "return",
             secrets |-> deduplicate_secrets(
                             fill_entropy(pattern_matches.secrets
                                 \o find_high_entropy_strings(content, location)))]

\* SecretsScanner._extract_secrets(content, location) with the shipped rule
\* set.
extract_secrets(content, location) ==
    extract_secrets_with(loaded_patterns, content, location).secrets

\* A strict comparison.
passes_threshold_exclusive(c) ==
    c > ai_threshold

\* s.ai_confidence >= self.ai_threshold
passes_threshold(c) ==
    c >= ai_threshold

\* A return of the filtered list.
validate_secrets_return_filtered(secrets, high) ==
    high

\* `return secrets` of _validate_secrets: the list the AI stage returned (or
\* the argument), not the filtered list.
validate_secrets_return(secrets, high) ==
    secrets

\* A test of the switch alone.
ai_stage_runs_without_client ==
    enable_ai

\* `self.enable_ai and self.ai_validator.client`
ai_stage_runs ==
    enable_ai /\ client

\* `s.ai_confidence >= self.ai_threshold` raises TypeError on a confidence
\* that is not a number.
filter_raises(h, list) ==
    \E k \in DOMAIN list : h[list[k]].ai_confidence = NonNumeric

\* [s for s in secrets if s.ai_confidence >= self.ai_threshold]
RECURSIVE filter_high_confidence(_, _)
filter_high_confidence(h, list) ==
    IF list = <<>> THEN <<>>
    ELSE LET rest == filter_high_confidence(h, Tail(list))
         IN IF passes_threshold(h[Head(list)].ai_confidence)
            THEN <<Head(list)>> \o rest
            ELSE rest

(***************************************************************************)
(* The scan pipeline: scan_url, scan_file, scan_directory.                 *)
(***************************************************************************)
Contents ==
    [pattern : SeqsUpTo(PatternHits, MaxHits), entropy : SeqsUpTo(EntropyHits, MaxHits)]

hits(content) == Len(content.pattern) + Len(content.entropy)

RECURSIVE total_hits(_)
total_hits(us) == IF us = <<>> THEN 0 ELSE hits(Head(us)) + total_hits(Tail(us))

\* The units an acquisition delivers: one file for scan_file, any number of
\* pages or files otherwise, each at its own location.
Targets(e) ==
    {us \in SeqsUpTo({c \in Contents : hits(c) <= MaxHits}, MaxUnits) :
        /\ total_hits(us) <= MaxHits
        /\ e = "file" => Len(us) = 1}

InitScan ==
    /\ heap = <<>>
    /\ ai_init
    /\ ai_idle
    /\ api_idle
    /\ enable_ai \in BOOLEAN
    /\ enable_api \in BOOLEAN
    /\ ai_threshold \in Thresholds
    /\ ai_stage_runs \/ ai_threshold = default_threshold
    /\ scan_pc = "extract"
    /\ entry \in {"url", "file", "directory"}
    /\ units \in Targets(entry)
    /\ unit_i = 0
    /\ all_secrets = <<>>
    /\ high_confidence = <<>>
    /\ finding = Finding
    /\ main_idle
    /\ dedup_idle
    /\ match_idle
    /\ crawl_idle

\* Finding.add_secret for each element of list.
add_secrets(f, list) ==
    [f EXCEPT !.secrets = @ \o list,
              !.total_secrets_found = @ + Len(list)]

\* One content unit: read it and extract its secrets.  A unit that cannot
\* be read or extracted is skipped by scan_directory and ends scan_url and
\* scan_file through their outer except.
ScanExtract ==
    /\ scan_pc = "extract"
    /\ unit_i < Len(units)
    /\ unit_i' = unit_i + 1
    /\ \E ok \in BOOLEAN :
          IF ok
          THEN LET found == extract_secrets(units[unit_i + 1], location_of(unit_i + 1))
                   new == [k \in 1..Len(found) |-> Len(heap) + k]
               IN /\ heap' = heap \o found
                  /\ scan_pc' = "extract"
                  /\ error_logged' = error_logged
                  /\ IF entry = "directory"
                     THEN /\ finding' = [add_secrets(finding, new) EXCEPT
                                            !.total_files_scanned = @ + 1]
                          /\ all_secrets' = all_secrets
                     ELSE /\ finding' = finding
                          /\ all_secrets' = all_secrets \o new
          ELSE /\ scan_pc' = IF entry = "directory" THEN "extract" ELSE "done"
               /\ error_logged' = (entry # "directory")
               /\ UNCHANGED <<heap, finding, all_secrets>>
    /\ UNCHANGED <<config_vars, ai_vars, api_vars, entry, units, high_confidence,
                   exit_code, dedup_vars, match_vars, crawl_vars>>

\* Entry of _validate_secrets and of its AI stage.
ScanValidate ==
    /\ scan_pc = "extract"
    /\ unit_i = Len(units)
    /\ LET list == IF entry = "directory" THEN finding.secrets ELSE all_secrets
       IN /\ all_secrets' = list
          /\ IF list = <<>>
             THEN /\ scan_pc' = IF entry = "directory" THEN "done" ELSE "validated"
                  /\ UNCHANGED <<heap, config_vars, ai_vars, high_confidence>>
             ELSE IF ai_stage_runs
                  THEN /\ validate_batch_call(list)
                       /\ scan_pc' = "ai"
                       /\ UNCHANGED high_confidence
                  ELSE /\ high_confidence' = list
                       /\ scan_pc' = "filtered"
                       /\ UNCHANGED <<heap, config_vars, ai_vars>>
    /\ UNCHANGED <<api_vars, entry, units, unit_i, finding, main_vars, dedup_vars,
                   match_vars, crawl_vars>>

\* Provider answers of the scan: a confidence below and one above the
\* threshold, and the malformed items.
ScanItems ==
    {i \in Items : i.kind = "score" => i.confidence \in {60, 85}}

ScanResponses(n) ==
    {r \in Responses(n) : \A k \in DOMAIN r.items : r.items[k] \in ScanItems}

ScanAIStep ==
    /\ scan_pc = "ai"
    /\ \E response \in ScanResponses(Min(batch_size, Len(ai_secrets) - ai_i)) :
          validate_batch_step(response)
    /\ UNCHANGED <<api_vars, scan_vars, main_vars, dedup_vars, match_vars, crawl_vars>>

\* secrets = self.ai_validator.validate_batch(secrets), then the filter.  A
\* TypeError of the filter leaves _validate_secrets and reaches the outer
\* except of the scan.
ScanAIReturn ==
    /\ scan_pc = "ai"
    /\ validate_batch_return
    /\ all_secrets' = validated
    /\ IF filter_raises(heap, validated)
       THEN /\ high_confidence' = high_confidence
            /\ scan_pc' = "done"
            /\ error_logged' = TRUE
       ELSE /\ high_confidence' = filter_high_confidence(heap, validated)
            /\ scan_pc' = "filtered"
            /\ error_logged' = error_logged
    /\ UNCHANGED <<api_vars, entry, units, unit_i, finding, exit_code, dedup_vars,
                   match_vars, crawl_vars>>

\* The live stage of _validate_secrets.
ScanLiveCall ==
    /\ scan_pc = "filtered"
    /\ IF enable_api /\ high_confidence # <<>>
       THEN /\ api_validate_batch_call(high_confidence)
            /\ scan_pc' = "api"
       ELSE /\ scan_pc' = "validated"
            /\ UNCHANGED <<heap, config_vars, api_vars>>
    /\ UNCHANGED <<ai_vars, entry, units, unit_i, all_secrets, high_confidence, finding,
                   main_vars, dedup_vars, match_vars, crawl_vars>>

ScanLiveTask ==
    /\ scan_pc = "api"
    /\ \E k \in DOMAIN tasks :
          \E outcome \in checker_outcomes(validator_map(heap[api_secrets[k]].type)) :
             api_task(k, outcome)
    /\ UNCHANGED <<ai_vars, scan_vars, main_vars, dedup_vars, match_vars, crawl_vars>>

\* high_confidence = await self.api_validator.validate_batch(high_confidence);
\* an exception of the gather reaches the outer except of the scan.
ScanLiveGather ==
    /\ scan_pc = "api"
    /\ api_gather
    /\ scan_pc' = IF api_pc' = "raised" THEN "done" ELSE "validated"
    /\ error_logged' = (error_logged \/ api_pc' = "raised")
    /\ UNCHANGED <<ai_vars, entry, units, unit_i, all_secrets, high_confidence, finding,
                   exit_code, dedup_vars, match_vars, crawl_vars>>

\* `return secrets` of _validate_secrets and the end of the scan call.
ScanFinish ==
    /\ scan_pc = "validated"
    /\ scan_pc' = "done"
    /\ finding' =
          IF entry = "directory"
          THEN [finding EXCEPT !.secrets =
                   validate_secrets_return(all_secrets, high_confidence)]
          ELSE [add_secrets(finding, validate_secrets_return(all_secrets, high_confidence))
                   EXCEPT !.total_files_scanned = Len(units)]
    /\ UNCHANGED <<heap, config_vars, ai_vars, api_vars,
                   entry, units, unit_i, all_secrets, high_confidence,
                   main_vars, dedup_vars, match_vars, crawl_vars>>

(***************************************************************************)
(* main (sensit.py): the scan call, the output of the result and the exit  *)
(* code of the process.                                                    *)
(***************************************************************************)
\* Finding.get_confirmed_secrets
get_confirmed_secrets(h, f) ==
    SelectSeq(f.secrets, LAMBDA id : h[id].status = "CONFIRMED")

\* The exit code main derives from the finding.
exit_status(h, f) ==
    IF get_confirmed_secrets(h, f) # <<>> THEN 2
    ELSE IF f.secrets # <<>> THEN 1
    ELSE 0

\* The scan call returned its Finding: main prints and exports it.  An
\* exception of the output code reaches `except Exception` of main.
MainOutput ==
    /\ scan_pc = "done"
    /\ \E raises \in BOOLEAN :
          IF raises
          THEN /\ scan_pc' = "exited"
               /\ exit_code' = 1
          ELSE /\ scan_pc' = "reported"
               /\ exit_code' = exit_code
    /\ UNCHANGED <<heap, config_vars, ai_vars, api_vars, entry, units, unit_i,
                   all_secrets, high_confidence, finding, error_logged, dedup_vars,
                   match_vars, crawl_vars>>

\* `Exit code based on findings`
MainExit ==
    /\ scan_pc = "reported"
    /\ scan_pc' = "exited"
    /\ exit_code' = exit_status(heap, finding)
    /\ UNCHANGED <<heap, config_vars, ai_vars, api_vars, entry, units, unit_i,
                   all_secrets, high_confidence, finding, error_logged, dedup_vars,
                   match_vars, crawl_vars>>

\* KeyboardInterrupt anywhere inside the try block of main: no handler of
\* the scan catches it (they catch Exception), main exits with 130.
MainInterrupt ==
    /\ scan_pc \notin {"idle", "exited"}
    /\ scan_pc' = "exited"
    /\ exit_code' = 130
    /\ UNCHANGED <<heap, config_vars, ai_vars, api_vars, entry, units, unit_i,
                   all_secrets, high_confidence, finding, error_logged, dedup_vars,
                   match_vars, crawl_vars>>

NextScan ==
    \/ ScanExtract
    \/ ScanValidate
    \/ ScanAIStep
    \/ ScanAIReturn
    \/ ScanLiveCall
    \/ ScanLiveTask
    \/ ScanLiveGather
    \/ ScanFinish
    \/ MainOutput
    \/ MainExit
    \/ MainInterrupt

SpecScan == InitScan /\ [][NextScan]_vars

(***************************************************************************)
(* _deduplicate_secrets as a function of its argument: a caller passes a   *)
(* list of records and passes the returned list once more.                 *)
(***************************************************************************)
MaxInput == 3          \* records in the argument of _deduplicate_secrets

DedupValues == {"A", "B"}
DedupLocations == {1, 2}
DedupLines == {1, 2}

\* Records as the two engines create them, before any validation.
DedupRecords ==
    {analyze_secret(pattern_secret("github_token", v, l, n)) :
        v \in DedupValues, l \in DedupLocations, n \in DedupLines}
    \cup {entropy_secret(v, l, n) :
        v \in DedupValues, l \in DedupLocations, n \in DedupLines}

InitDedup ==
    /\ heap = <<>>
    /\ provider = "unknown"
    /\ client = FALSE
    /\ batch_size = 1
    /\ enable_ai = TRUE
    /\ enable_api = TRUE
    /\ ai_threshold = default_threshold
    /\ ai_idle
    /\ api_idle
    /\ scan_idle
    /\ main_idle
    /\ dedup_pc = 0
    /\ dedup_arg \in SeqsUpTo(DedupRecords, MaxInput)
    /\ dedup_ret = <<>>
    /\ match_idle
    /\ crawl_idle

\* unique = self._deduplicate_secrets(secrets)
DeduplicateCall ==
    /\ dedup_pc = 0
    /\ dedup_pc' = 1
    /\ dedup_ret' = deduplicate_secrets(dedup_arg)
    /\ UNCHANGED <<heap, config_vars, ai_vars, api_vars, scan_vars, main_vars, dedup_arg,
                   match_vars, crawl_vars>>

\* self._deduplicate_secrets(unique): the returned list is the next argument.
DeduplicateAgain ==
    /\ dedup_pc = 1
    /\ dedup_pc' = 2
    /\ dedup_arg' = dedup_ret
    /\ dedup_ret' = deduplicate_secrets(dedup_ret)
    /\ UNCHANGED <<heap, config_vars, ai_vars, api_vars, scan_vars, main_vars,
                   match_vars, crawl_vars>>

NextDedup == DeduplicateCall \/ DeduplicateAgain

SpecDedup == InitDedup /\ [][NextDedup]_vars

(***************************************************************************)
(* The two extraction engines called directly on a content, the Pattern    *)
(* Matcher with any rule set a patterns file can hold.                     *)
(***************************************************************************)
MatchRules == {"github_token", "aws_access_key"}
SeverityEntries == {"CRITICAL", "absent"}

\* Rule sets: rules with distinct names in any order.
RuleSets ==
    {rs \in SeqsUpTo([name : MatchRules, pattern : PatternEntries,
                      severity : SeverityEntries], Cardinality(MatchRules)) :
        \A i, j \in DOMAIN rs : i # j => rs[i].name # rs[j].name}

\* Texts a rule matches, of entropy 4 and 0 bits, and candidate tokens of
\* the Entropy Analyzer, of entropy 4 and 2 bits.
MatchValues == {"A", "Z"}
CandidateValues == {"A", "Y"}

MatchContents ==
    [pattern : SeqsUpTo([rule : MatchRules, value : MatchValues], MaxHits),
     entropy : SeqsUpTo([value : CandidateValues], MaxHits)]

InitExtraction ==
    /\ heap = <<>>
    /\ provider = "unknown"
    /\ client = FALSE
    /\ batch_size = 1
    /\ enable_ai = TRUE
    /\ enable_api = TRUE
    /\ ai_threshold = default_threshold
    /\ ai_idle
    /\ api_idle
    /\ scan_idle
    /\ main_idle
    /\ dedup_idle
    /\ match_pc = "idle"
    /\ match_arg \in [patterns : RuleSets, content : MatchContents, location : {1}]
    /\ match_ret = <<>>
    /\ crawl_idle

\* pattern_matches = self.pattern_matcher.find_matches(content, location)
FindMatchesCall ==
    /\ match_pc = "idle"
    /\ match_pc' = "find_matches"
    /\ match_ret' = find_matches_with(match_arg.patterns, match_arg.content,
                                      match_arg.location)
    /\ UNCHANGED <<heap, config_vars, ai_vars, api_vars, scan_vars, main_vars,
                   dedup_vars, match_arg, crawl_vars>>

\* entropy_matches = self.entropy_analyzer.find_high_entropy_strings(content, location)
FindHighEntropyCall ==
    /\ match_pc = "idle"
    /\ match_pc' = "find_high_entropy_strings"
    /\ match_ret' = [kind |-> "return",
                     secrets |-> find_high_entropy_strings(match_arg.content,
                                                           match_arg.location)]
    /\ UNCHANGED <<heap, config_vars, ai_vars, api_vars, scan_vars, main_vars,
                   dedup_vars, match_arg, crawl_vars>>

\* secrets = await self._extract_secrets(content, location)
ExtractSecretsCall ==
    /\ match_pc = "idle"
    /\ match_pc' = "_extract_secrets"
    /\ match_ret' = extract_secrets_with(match_arg.patterns, match_arg.content,
                                         match_arg.location)
    /\ UNCHANGED <<heap, config_vars, ai_vars, api_vars, scan_vars, main_vars,
                   dedup_vars, match_arg, crawl_vars>>

NextExtraction == FindMatchesCall \/ FindHighEntropyCall \/ ExtractSecretsCall

SpecExtraction == InitExtraction /\ [][NextExtraction]_vars

(***************************************************************************)
(* A scan whose records all fit into one batch of the Confidence           *)
(* Validator (the batch size is 10 by default, 5 for ollama).              *)
(***************************************************************************)
MaxRecords == 3        \* hits of both engines over the whole target

OrderTargets(e) ==
    {us \in SeqsUpTo({c \in Contents : hits(c) <= MaxRecords}, MaxUnits) :
        /\ total_hits(us) <= MaxRecords
        /\ e = "file" => Len(us) = 1}

InitOrder ==
    /\ heap = <<>>
    /\ provider \in Providers
    /\ client = TRUE
    /\ batch_size = MaxRecords
    /\ ai_idle
    /\ api_idle
    /\ enable_ai = TRUE
    /\ enable_api \in BOOLEAN
    /\ ai_threshold = default_threshold
    /\ scan_pc = "extract"
    /\ entry \in {"url", "file", "directory"}
    /\ units \in OrderTargets(entry)
    /\ unit_i = 0
    /\ all_secrets = <<>>
    /\ high_confidence = <<>>
    /\ finding = Finding
    /\ main_idle
    /\ dedup_idle
    /\ match_idle
    /\ crawl_idle

\* Provider answers: a confidence above the threshold for every item, or an
\* item that is not an object at the end.
OrderResponses(n) ==
    {r \in Responses(n) :
        /\ r.kind = "object"
        /\ \A k \in DOMAIN r.items :
              r.items[k] \in {[kind |-> "score", confidence |-> 85],
                              [kind |-> "not_object", confidence |-> 0]}}

OrderAIStep ==
    /\ scan_pc = "ai"
    /\ \E response \in OrderResponses(Min(batch_size, Len(ai_secrets) - ai_i)) :
          validate_batch_step(response)
    /\ UNCHANGED <<api_vars, scan_vars, main_vars, dedup_vars, match_vars, crawl_vars>>

NextOrder ==
    \/ ScanExtract
    \/ ScanValidate
    \/ OrderAIStep
    \/ ScanAIReturn
    \/ ScanLiveCall
    \/ ScanLiveTask
    \/ ScanLiveGather
    \/ ScanFinish

SpecOrder == InitOrder /\ [][NextOrder]_vars

(***************************************************************************)
(* WebCrawler.crawl (discovery/web_crawler.py): a breadth-first walk over  *)
(* the same-domain links of a site, one action per iteration of the loop.  *)
(* The site is any link graph over Urls, cycles and self-links included;   *)
(* every fetch may succeed or fail.                                        *)
(***************************************************************************)
MaxDepth == 2          \* largest configured discovery.max_depth
MaxPages == 4          \* largest configured discovery.max_pages

Urls == {"u0", "u1", "u2"}
start_url == "u0"

\* `[:20]  # Limit to 20 links per page`
link_limit == 20

\* The orders in which a set can be listed.
Orderings(S) ==
    {q \in [1..Cardinality(S) -> S] : \A i, j \in DOMAIN q : i # j => q[i] # q[j]}

\* _extract_links(content, base_url): the same-domain links of the page that
\* are not visited, without repetition, in the order the set yields them,
\* cut to the first 20.
extract_links(url, visited) ==
    {SubSeq(q, 1, Min(Len(q), link_limit)) : q \in Orderings(web[url] \ visited)}

\* `for link in links: if link not in self.visited_urls: to_visit.append(...)`
RECURSIVE append_links(_, _, _, _)
append_links(queue, links, depth, visited) ==
    IF links = <<>> THEN queue
    ELSE append_links(IF Head(links) \notin visited
                      THEN Append(queue, <<Head(links), depth + 1>>)
                      ELSE queue,
                      Tail(links), depth, visited)

\* The content the n-th fetch of a URL delivers.
content_of(url, n) == <<url, n>>

InitCrawl ==
    /\ heap = <<>>
    /\ provider = "unknown"
    /\ client = FALSE
    /\ batch_size = 1
    /\ enable_ai = TRUE
    /\ enable_api = TRUE
    /\ ai_threshold = default_threshold
    /\ ai_idle
    /\ api_idle
    /\ scan_idle
    /\ main_idle
    /\ dedup_idle
    /\ match_idle
    /\ max_depth \in 0..MaxDepth
    /\ max_pages \in 1..MaxPages
    /\ web \in [Urls -> SUBSET Urls]
    /\ crawl_pc = "idle"
    /\ visited_urls = {}
    /\ pages_content = <<>>
    /\ to_visit = <<>>
    /\ fetches = [u \in Urls |-> 0]

\* pages_content = {}; to_visit = [(start_url, 0)]
crawl_call ==
    /\ crawl_pc = "idle"
    /\ crawl_pc' = "loop"
    /\ pages_content' = <<>>
    /\ to_visit' = <<<<start_url, 0>>>>
    /\ UNCHANGED <<max_depth, max_pages, web, visited_urls, fetches>>

\* The loop condition `to_visit and len(self.visited_urls) < self.max_pages`.
crawl_continues ==
    to_visit # <<>> /\ Cardinality(visited_urls) < max_pages

\* An iteration that fetches without looking at visited_urls.
crawl_iteration_revisits(content, links) ==
    LET current_url == Head(to_visit)[1]
        depth == Head(to_visit)[2]
    IN /\ crawl_pc = "loop"
       /\ crawl_continues
       /\ IF depth > max_depth
          THEN /\ to_visit' = Tail(to_visit)
               /\ UNCHANGED <<visited_urls, pages_content, fetches>>
          ELSE /\ fetches' = [fetches EXCEPT ![current_url] = @ + 1]
               /\ IF content
                  THEN /\ visited_urls' = visited_urls \cup {current_url}
                       /\ pages_content' =
                             [u \in DOMAIN pages_content \cup {current_url} |->
                                 IF u = current_url
                                 THEN content_of(current_url, fetches'[current_url])
                                 ELSE pages_content[u]]
                       /\ IF depth < max_depth
                          THEN /\ links \in extract_links(current_url, visited_urls')
                               /\ to_visit' = append_links(Tail(to_visit), links, depth,
                                                           visited_urls')
                          ELSE /\ links = <<>>
                               /\ to_visit' = Tail(to_visit)
                  ELSE /\ links = <<>>
                       /\ to_visit' = Tail(to_visit)
                       /\ UNCHANGED <<visited_urls, pages_content>>
       /\ UNCHANGED <<max_depth, max_pages, web, crawl_pc>>

\* An iteration that puts a URL whose fetch failed back into the queue.
crawl_iteration_retries(content, links) ==
    LET current_url == Head(to_visit)[1]
        depth == Head(to_visit)[2]
    IN /\ crawl_pc = "loop"
       /\ crawl_continues
       /\ IF current_url \in visited_urls \/ depth > max_depth
          THEN /\ to_visit' = Tail(to_visit)
               /\ UNCHANGED <<visited_urls, pages_content, fetches>>
          ELSE /\ fetches' = fetches
               /\ IF content
                  THEN /\ visited_urls' = visited_urls \cup {current_url}
                       /\ pages_content' =
                             [u \in DOMAIN pages_content \cup {current_url} |->
                                 IF u = current_url
                                 THEN content_of(current_url, fetches[current_url] + 1)
                                 ELSE pages_content[u]]
                       /\ IF depth < max_depth
                          THEN /\ links \in extract_links(current_url, visited_urls')
                               /\ to_visit' = append_links(Tail(to_visit), links, depth,
                                                           visited_urls')
                          ELSE /\ links = <<>>
                               /\ to_visit' = Tail(to_visit)
                  ELSE /\ links = <<>>
                       /\ to_visit' = Append(Tail(to_visit), Head(to_visit))
                       /\ UNCHANGED <<visited_urls, pages_content>>
       /\ UNCHANGED <<max_depth, max_pages, web, crawl_pc>>

\* One iteration of the while loop of crawl: pop the head of the queue, skip
\* it when visited or too deep, else fetch it; a page with content is
\* stored and marked visited, and below max_depth its links are queued.
\* content: _fetch_page returned a non-empty text; links: the list
\* _extract_links returned.
crawl_iteration(content, links) ==
    LET current_url == Head(to_visit)[1]
        depth == Head(to_visit)[2]
    IN /\ crawl_pc = "loop"
       /\ crawl_continues
       /\ IF current_url \in visited_urls \/ depth > max_depth
          THEN /\ to_visit' = Tail(to_visit)
               /\ UNCHANGED <<visited_urls, pages_content, fetches>>
          ELSE /\ fetches' = [fetches EXCEPT ![current_url] = @ + 1]
               /\ IF content
                  THEN /\ visited_urls' = visited_urls \cup {current_url}
                       /\ pages_content' =
                             [u \in DOMAIN pages_content \cup {current_url} |->
                                 IF u = current_url
                                 THEN content_of(current_url, fetches'[current_url])
                                 ELSE pages_content[u]]
                       /\ IF depth < max_depth
                          THEN /\ links \in extract_links(current_url, visited_urls')
                               /\ to_visit' = append_links(Tail(to_visit), links, depth,
                                                           visited_urls')
                          ELSE /\ links = <<>>
                               /\ to_visit' = Tail(to_visit)
                  ELSE /\ links = <<>>
                       /\ to_visit' = Tail(to_visit)
                       /\ UNCHANGED <<visited_urls, pages_content>>
       /\ UNCHANGED <<max_depth, max_pages, web, crawl_pc>>

\* The loop ends: `return pages_content`.
crawl_return ==
    /\ crawl_pc = "loop"
    /\ ~crawl_continues
    /\ crawl_pc' = "returned"
    /\ UNCHANGED <<max_depth, max_pages, web, visited_urls, pages_content, to_visit,
                   fetches>>

CrawlCall ==
    /\ crawl_call
    /\ UNCHANGED <<heap, config_vars, ai_vars, api_vars, scan_vars, main_vars,
                   dedup_vars, match_vars>>

CrawlIteration ==
    /\ \E content \in BOOLEAN : \E links \in SeqsUpTo(Urls, Cardinality(Urls)) :
          crawl_iteration(content, links)
    /\ UNCHANGED <<heap, config_vars, ai_vars, api_vars, scan_vars, main_vars,
                   dedup_vars, match_vars>>

CrawlReturn ==
    /\ crawl_return
    /\ UNCHANGED <<heap, config_vars, ai_vars, api_vars, scan_vars, main_vars,
                   dedup_vars, match_vars>>

NextCrawl == CrawlCall \/ CrawlIteration \/ CrawlReturn

SpecCrawl == InitCrawl /\ [][NextCrawl]_vars

\* crawl is sequential code and every _fetch_page call ends, by its timeout
\* at the latest: a step that is possible is taken.
SpecCrawlFair == SpecCrawl /\ WF_vars(NextCrawl)

(***************************************************************************)
(* The program without an AI client: no API key, a provider library that   *)
(* is missing or fails to initialise, or an unknown provider name.  The    *)
(* validator is called directly by a caller holding records, and through   *)
(* the scan pipeline.  validate_batch and validate_secret return before    *)
(* their loop, so no batch step exists.                                    *)
(***************************************************************************)
InitNoClient ==
    /\ InitAI \/ InitScan
    /\ ~client

NoClientBatchCall ==
    /\ scan_pc = "idle"
    /\ AIBatchCall

NoClientSecretCall ==
    /\ scan_pc = "idle"
    /\ AISecretCall

NextNoClient ==
    \/ NoClientBatchCall
    \/ NoClientSecretCall
    \/ ScanExtract
    \/ ScanValidate
    \/ ScanLiveCall
    \/ ScanLiveTask
    \/ ScanLiveGather
    \/ ScanFinish
    \/ MainOutput
    \/ MainExit
    \/ MainInterrupt

SpecNoClient == InitNoClient /\ [][NextNoClient]_vars

(***************************************************************************)
(* Properties of the Confidence Validator (checked under SpecAI).          *)
(***************************************************************************)
\* C1: validate_batch returns exactly its input records, each once and in
\* input order, whatever the provider answered.
C1_ReturnsInputOnce ==
    ai_pc = "returned" => validated = ai_secrets

\* The step just taken was one iteration of the batch loop.
batch_stepped == ai_pc = "loop" /\ ai_i' # ai_i

\* C2: a batch whose provider call raised or whose answer could not be
\* parsed leaves every record as it was, is appended once to the result,
\* and validate_batch goes on without raising.
C2_FailedBatchUntouched ==
    [][(batch_stepped /\ result'.kind \in {"raise", "unparsable"})
          => /\ heap' = heap
             /\ validated' = validated \o batch'
             /\ Len(validated') = Len(validated) + Len(batch')
             /\ batch' = slice(ai_secrets, ai_i, batch_size)
             /\ ai_pc' = "loop"]_vars

\* A failed last batch of two records, one of which an earlier call had
\* already scored CONFIRMED, has been returned.
C2_Witness ==
    /\ ai_pc = "returned"
    /\ result.kind \in {"raise", "unparsable"}
    /\ Len(batch) = 2
    /\ validated = ai_secrets
    /\ \E j \in 1..Len(batch) : heap[batch[j]].status = "CONFIRMED"

\* Position j of the current batch (or the single secret) was given a
\* numeric confidence by the provider's answer.
scored(j) ==
    /\ result.kind = "object"
    /\ j <= Len(result.items)
    /\ \A k \in 1..j : result.items[k].kind \in {"score", "no_keys"}

given_confidence(j) ==
    IF result.items[j].kind = "score" THEN result.items[j].confidence ELSE 0

\* The status table of the specification.
in_band(c, status) ==
    /\ c < 30 => status = "UNVERIFIED"
    /\ (30 <= c /\ c < 60) => status = "POSSIBLE"
    /\ (60 <= c /\ c < 85) => status = "LIKELY"
    /\ c >= 85 => status = "CONFIRMED"

boundary_status ==
    (29 :> "UNVERIFIED") @@ (30 :> "POSSIBLE") @@ (59 :> "POSSIBLE")
    @@ (60 :> "LIKELY") @@ (84 :> "LIKELY") @@ (85 :> "CONFIRMED")

\* C3: a record the AI stage scored with confidence c carries c and the
\* status of c's band, lower bounds inclusive, after validate_batch and
\* after validate_secret.
C3_StatusByBand ==
    ai_pc \in {"loop", "returned", "returned_secret"} =>
        \A j \in 1..Len(batch) :
            scored(j) =>
                LET c == given_confidence(j)
                    s == heap[batch[j]]
                IN /\ s.ai_confidence = c
                   /\ in_band(c, s.status)
                   /\ c \in DOMAIN boundary_status => s.status = boundary_status[c]

\* One batch scored its two records 59 and 60.
C3_Witness ==
    /\ ai_pc = "returned"
    /\ Len(batch) = 2
    /\ scored(1) /\ given_confidence(1) = 59 /\ heap[batch[1]].status = "POSSIBLE"
    /\ scored(2) /\ given_confidence(2) = 60 /\ heap[batch[2]].status = "LIKELY"

\* C5: no validator step lowers the status or the severity of a record.
C5_OnlyEscalate ==
    [][\A id \in 1..Len(heap) :
          /\ StatusRank(heap'[id].status) >= StatusRank(heap[id].status)
          /\ SeverityRank(heap'[id].severity) >= SeverityRank(heap[id].severity)]_vars

(***************************************************************************)
(* Properties of the Live Validator (checked under SpecLive).              *)
(***************************************************************************)
\* Task k ran validate_secret in the step just taken.
task_ran(k) ==
    /\ api_pc = "gather"
    /\ k \in DOMAIN tasks
    /\ tasks[k].state = "pending"
    /\ tasks'[k].state # "pending"

\* C4: when the checker answers isValid = true the record ends with
\* api_valid = True, status CONFIRMED and severity CRITICAL.
C4_LiveConfirmationWins ==
    [][\A k \in DOMAIN tasks :
          (task_ran(k) /\ tasks'[k].outcome.is_valid)
             => LET s == heap'[api_secrets[k]]
                IN /\ s.api_valid = "True"
                   /\ s.status = "CONFIRMED"
                   /\ s.severity = "CRITICAL"
                   /\ tasks'[k].state = "done"]_vars

\* A never-scored github token of severity HIGH was confirmed live.
C4_Witness ==
    \E k \in DOMAIN tasks :
        /\ tasks[k].state = "done"
        /\ tasks[k].outcome.is_valid
        /\ LET s == heap[api_secrets[k]]
           IN /\ s.type = "github_token"
              /\ s.ai_confidence = 0
              /\ s.status = "CONFIRMED"
              /\ s.severity = "CRITICAL"

\* C6: a live check that fails with a transport or authentication error
\* leaves the record with api_valid unknown and the error in api_details.
C6_TransportFailureUnknown ==
    \A k \in DOMAIN tasks :
        (tasks[k].state # "pending" /\ tasks[k].outcome.kind \in {"failed", "raise"})
           => /\ tasks[k].state = "done"
              /\ heap[api_secrets[k]].api_valid = "None"
              /\ heap[api_secrets[k]].api_details = "{error: str(e)}"

\* What validate_secret leaves in api_valid for a checker outcome.
api_valid_after(outcome) ==
    CASE outcome.kind = "valid" -> "True"
      [] outcome.kind \in {"rejected", "failed"} -> "False"
      [] OTHER -> "None"

\* C7: a task touches only its own record, a raising checker fails no task
\* and not the batch, and at the return every record carries the outcome of
\* its own check.
C7_TasksIsolated ==
    /\ [](api_pc # "raised" /\ \A k \in DOMAIN tasks : tasks[k].state # "failed")
    /\ [](api_pc = "returned" =>
             \A k \in DOMAIN tasks :
                /\ tasks[k].state = "done"
                /\ heap[api_secrets[k]].api_valid = api_valid_after(tasks[k].outcome))
    /\ [][\A k \in DOMAIN tasks :
             task_ran(k) =>
                \A id \in 1..Len(heap) :
                   id # api_secrets[k] => heap'[id] = heap[id]]_vars

\* A batch returned in which one checker raised and another confirmed.
C7_Witness ==
    /\ api_pc = "returned"
    /\ \E k1, k2 \in DOMAIN tasks :
          /\ tasks[k1].outcome.kind = "raise"
          /\ tasks[k2].outcome.kind = "valid"
          /\ heap[api_secrets[k1]].api_valid = "None"
          /\ heap[api_secrets[k2]].api_valid = "True"

\* C8: when the checker answers isValid = false the record gets
\* api_valid = False and keeps its status and severity.
C8_RejectionKeepsClass ==
    [][\A k \in DOMAIN tasks :
          (task_ran(k) /\ tasks'[k].outcome.kind \in {"rejected", "failed"})
             => LET id == api_secrets[k]
                IN /\ heap'[id].api_valid = "False"
                   /\ heap'[id].status = heap[id].status
                   /\ heap'[id].severity = heap[id].severity]_vars

\* A record the AI stage had left LIKELY was rejected by its checker.
C8_Witness ==
    \E k \in DOMAIN tasks :
        /\ tasks[k].state = "done"
        /\ tasks[k].outcome.kind = "rejected"
        /\ heap[api_secrets[k]].api_valid = "False"
        /\ heap[api_secrets[k]].status = "LIKELY"
        /\ heap[api_secrets[k]].severity = "HIGH"

\* C9: validate_secret changes nothing on a record whose type has no
\* checker, and reports no error.
C9_UnregisteredUntouched ==
    [][\A k \in DOMAIN tasks :
          (task_ran(k) /\ validator_map(heap[api_secrets[k]].type) = "None")
             => /\ heap' = heap
                /\ tasks'[k].state = "done"
                /\ api_pc' = "gather"]_vars

\* The task of a high-entropy record (no checker) is done.
C9_Witness ==
    \E k \in DOMAIN tasks :
        /\ tasks[k].state = "done"
        /\ heap[api_secrets[k]].type = HighEntropyType
        /\ heap[api_secrets[k]].api_valid = "None"
        /\ heap[api_secrets[k]].api_details = "{}"
        /\ heap[api_secrets[k]].status = "LIKELY"

(***************************************************************************)
(* Properties of _deduplicate_secrets (checked under SpecDedup).           *)
(***************************************************************************)
\* Two records have the same identity (ruleType, value, location).
same_identity(a, b) ==
    a.type = b.type /\ a.value = b.value /\ a.location = b.location

\* The positions of x that hold the first record of their identity.
first_positions(x) ==
    {k \in DOMAIN x : \A j \in 1..(k - 1) : ~same_identity(x[j], x[k])}

\* C11: _deduplicate_secrets returns, in input order and unchanged, exactly
\* the records of its argument that are the first of their identity
\* (ruleType, value, location); every later record of an identity is dropped.
C11_KeepsFirstInOrder ==
    dedup_pc >= 1 =>
        LET F == first_positions(dedup_arg)
        IN /\ Len(dedup_ret) = Cardinality(F)
           /\ \A k \in F :
                 dedup_ret[Cardinality({j \in F : j <= k})] = dedup_arg[k]

\* Of three records the third repeats the identity of the first on another
\* line; the first and the second were returned.
C11_Witness ==
    /\ dedup_pc = 1
    /\ Len(dedup_arg) = 3
    /\ same_identity(dedup_arg[1], dedup_arg[3])
    /\ dedup_arg[1].line_number # dedup_arg[3].line_number
    /\ ~same_identity(dedup_arg[1], dedup_arg[2])
    /\ dedup_ret = <<dedup_arg[1], dedup_arg[2]>>

\* C12: deduplicating the result of a deduplication returns it unchanged.
C12_Idempotent ==
    [][dedup_pc = 1 => dedup_ret' = dedup_ret]_vars

\* A returned list of two records went through the second call.
C12_Witness ==
    /\ dedup_pc = 2
    /\ Len(dedup_arg) = 2
    /\ dedup_ret = dedup_arg
    /\ ~same_identity(dedup_arg[1], dedup_arg[2])

(***************************************************************************)
(* Properties of the scan pipeline (checked under SpecScan).               *)
(***************************************************************************)
\* C10: no two records of the returned ScanResult have the same
\* (type, value, location).
C10_UniqueTriples ==
    scan_pc = "done" =>
        \A i, j \in DOMAIN finding.secrets :
            i # j => key(heap[finding.secrets[i]]) # key(heap[finding.secrets[j]])

\* The step just taken read and extracted unit unit_i + 1.
unit_extracted ==
    /\ scan_pc = "extract"
    /\ unit_i' = unit_i + 1
    /\ scan_pc' = "extract"
    /\ entry = "directory" => finding'.total_files_scanned # finding.total_files_scanned

\* C13: a literal that the rule engine and the entropy engine both find at
\* the same location and line leaves _extract_secrets as one record, the
\* rule engine's.
C13_BothEnginesOneRecord ==
    [][unit_extracted =>
          LET content == units[unit_i + 1]
              found == (Len(heap) + 1)..Len(heap')
          IN \A k \in DOMAIN content.pattern \cap DOMAIN content.entropy :
                content.pattern[k].value = content.entropy[k].value =>
                   LET same == {id \in found :
                                   /\ heap'[id].value = content.pattern[k].value
                                   /\ heap'[id].line_number = k}
                   IN /\ Cardinality(same) = 1
                      /\ \A id \in same : heap'[id].regex_match]_vars

\* The records a list of ids holds.
members(list) == {list[k] : k \in DOMAIN list}

\* C14: the threshold filter removes nothing from the result: the list
\* _validate_secrets returns, which the scan puts into the ScanResult, holds
\* every extracted record, also those below the threshold.
C14_NothingFiltered ==
    (scan_pc = "done" /\ ~error_logged) =>
        \A id \in 1..Len(heap) : id \in members(finding.secrets)

\* A scan ended whose AI stage scored one record below and one above the
\* threshold; both are in the result.
C14_Witness ==
    /\ scan_pc = "done"
    /\ ~error_logged
    /\ ai_pc = "returned"
    /\ \E a, b \in members(finding.secrets) :
          /\ heap[a].ai_confidence = 60
          /\ heap[a].ai_confidence < ai_threshold
          /\ heap[b].ai_confidence = 85
    /\ Len(high_confidence) = 1

\* C15: when the AI stage runs, exactly the records whose confidence is at
\* least the threshold are handed to the Live Validator, and a record below
\* it ends the scan with api_valid unknown; when the AI stage does not run
\* and live validation is enabled, every record is handed to it.
C15_ThresholdGatesLiveStage ==
    /\ (scan_pc = "api" /\ ai_stage_runs) =>
          \A id \in 1..Len(heap) :
             id \in members(api_secrets) <=> heap[id].ai_confidence >= ai_threshold
    /\ (scan_pc = "done" /\ ai_stage_runs) =>
          \A id \in 1..Len(heap) :
             heap[id].ai_confidence < ai_threshold => heap[id].api_valid = "None"
    /\ (scan_pc = "done" /\ ~error_logged /\ ~ai_stage_runs /\ enable_api /\ heap # <<>>) =>
          /\ api_pc = "returned"
          /\ api_secrets = [k \in 1..Len(heap) |-> k]

\* With threshold 60 the AI stage scored one record 60 and left another
\* unscored; only the first went to the Live Validator, which confirmed it.
C15_Witness ==
    /\ scan_pc = "done"
    /\ ai_stage_runs
    /\ ai_threshold = 60
    /\ api_pc = "returned"
    /\ \E a, b \in 1..Len(heap) :
          /\ heap[a].ai_confidence = 60
          /\ api_secrets = <<a>>
          /\ heap[a].api_valid = "True"
          /\ heap[b].ai_confidence = 0
          /\ heap[b].api_valid = "None"

\* The step just taken failed to read or extract unit unit_i + 1.
unit_failed ==
    /\ scan_pc = "extract"
    /\ unit_i' = unit_i + 1
    /\ ~unit_extracted

\* The validation stage of the scan raised.
validation_failed ==
    \/ ai_pc = "returned" /\ filter_raises(heap, validated)
    \/ api_pc = "raised"

\* C17: in scan_url and scan_directory a unit that cannot be read or
\* extracted is skipped: the scan goes on with the next unit, keeps what it
\* has, raises nothing, and the returned ScanResult holds the records of
\* the other units.
C17_UnitFailureIsolated ==
    /\ [][(entry \in {"url", "directory"} /\ unit_failed) =>
             /\ scan_pc' = "extract"
             /\ error_logged' = error_logged
             /\ heap' = heap
             /\ finding' = finding
             /\ all_secrets' = all_secrets]_vars
    /\ []((scan_pc = "done" /\ entry \in {"url", "directory"} /\ ~validation_failed) =>
             /\ unit_i = Len(units)
             /\ \A id \in 1..Len(heap) : id \in members(finding.secrets))

\* C18: a scan call that ended in its outer except returns a ScanResult
\* holding the records extracted before the failure.
C18_PartialResultKept ==
    (scan_pc = "done" /\ error_logged) =>
        \A id \in 1..Len(heap) : id \in members(finding.secrets)

\* C19: a process whose scan call hit an unhandled pipeline failure exits
\* with a non-zero code.
C19_FailureExitsNonZero ==
    (exit_code # NoExit /\ error_logged) => exit_code # 0

\* A record of the finding the Live Validator confirmed.
live_confirmed(h, f) ==
    \E k \in DOMAIN f.secrets : h[f.secrets[k]].api_valid = "True"

\* C20: the exit code is 0 exactly when the result has no records, 2
\* exactly when a record of the result is live-confirmed, 1 when there are
\* records and none is live-confirmed, and 130 when the scan is interrupted.
C20_ExitCodes ==
    /\ [][(scan_pc = "reported" /\ scan_pc' = "exited" /\ exit_code' # 130) =>
             /\ exit_code' = 0 <=> finding.secrets = <<>>
             /\ exit_code' = 2 <=> live_confirmed(heap, finding)
             /\ (finding.secrets # <<>> /\ ~live_confirmed(heap, finding))
                   => exit_code' = 1]_vars
    /\ [][(scan_pc \in {"extract", "ai", "filtered", "api", "validated"}
              /\ scan_pc' = "exited") => exit_code' = 130]_vars

\* Number of checker calls made for record id in the live stage.
checker_calls(id) ==
    Cardinality({k \in DOMAIN tasks :
                    /\ api_secrets[k] = id
                    /\ tasks[k].state # "pending"
                    /\ validator_map(heap[id].type) # "None"})

\* C25: nothing is retried in a scan: at most one provider call per AI
\* batch and at most one checker call per record, also after a failure; a
\* failed provider call leaves its batch unchanged and a failed checker
\* call leaves its record with api_valid unknown.
C25_NothingRetried ==
    /\ [](provider_calls <= total_batches)
    /\ [](\A id \in 1..Len(heap) : checker_calls(id) <= 1)
    /\ [][(batch_stepped /\ result'.kind \in {"raise", "unparsable"})
             => heap' = heap]_vars
    /\ [](\A k \in DOMAIN tasks :
             (tasks[k].state # "pending" /\ tasks[k].outcome.kind \in {"failed", "raise"})
                => heap[api_secrets[k]].api_valid = "None")

\* C26: in a scan the Confidence Validator has finished every batch
\* before the first live check starts, and the live stage is idle while a
\* batch is still to come: no record is written by both validators at the
\* same time.
C26_ValidatorsInSequence ==
    /\ [](api_pc # "idle" =>
             /\ ai_pc \in {"idle", "returned"}
             /\ ai_pc = "returned" => ai_i >= Len(ai_secrets))
    /\ [](ai_pc = "loop" => api_pc = "idle" /\ tasks = <<>>)
    /\ [][heap' # heap => ~(ai_vars' # ai_vars /\ api_vars' # api_vars)]_vars

\* The AI stage made its two provider calls and returned; the first live
\* check has run and the second is pending.
C26_Witness ==
    /\ scan_pc = "api"
    /\ ai_pc = "returned"
    /\ provider_calls = 2
    /\ Len(tasks) = 2
    /\ tasks[1].state = "done"
    /\ tasks[2].state = "pending"

(***************************************************************************)
(* Properties of the program without an AI client (SpecNoClient).          *)
(***************************************************************************)
\* C16: without a client validate_batch and validate_secret return their
\* argument and change no field of any record, the AI stage of the scan
\* does not run and does not fail, and the scan hands every extracted
\* record on to the live stage.
C16_NoClientPassthrough ==
    /\ [](scan_pc # "ai" /\ ai_pc \notin {"loop", "raised"})
    /\ [][ai_vars' # ai_vars =>
             /\ heap' = heap
             /\ ai_pc' \in {"returned", "returned_secret"}
             /\ ai_pc' = "returned" => validated' = [k \in 1..Len(heap) |-> k]]_vars
    /\ [][(scan_pc = "extract" /\ unit_i = Len(units) /\ heap # <<>>
                                   /\ exit_code' = exit_code) =>
             /\ scan_pc' = "filtered"
             /\ high_confidence' = [k \in 1..Len(heap) |-> k]
             /\ heap' = heap
             /\ error_logged' = error_logged]_vars
    /\ []((scan_pc = "api") => api_secrets = [k \in 1..Len(heap) |-> k])

\* The openai provider failed to initialise; validate_batch returned the
\* caller's two records.
C16_Witness ==
    /\ provider = "openai"
    /\ ~client
    /\ ai_pc = "returned"
    /\ validated = <<1, 2>>
    /\ \A id \in 1..Len(heap) : heap[id] = fresh(heap[id].type)

(***************************************************************************)
(* Further properties of the Confidence Validator (SpecAI).                *)
(***************************************************************************)
\* C21: the AI stage never changes a severity, and it changes the status
\* of a record only when the answer was parsed to an object that holds a
\* result at the record's position in the batch.
C21_StatusOnlyFromResult ==
    [][\A id \in 1..Len(heap) :
          /\ heap'[id].severity = heap[id].severity
          /\ heap'[id].status # heap[id].status =>
                /\ result'.kind = "object"
                /\ \E j \in 1..Len(batch') :
                      batch'[j] = id /\ j <= Len(result'.items)]_vars

\* The answer to a batch of two held one result: the first record became
\* CONFIRMED, the second kept the LIKELY of an earlier call.
C21_Witness ==
    /\ ai_pc = "returned"
    /\ Len(batch) = 2
    /\ result.kind = "object"
    /\ Len(result.items) = 1
    /\ heap[batch[1]].status = "CONFIRMED"
    /\ heap[batch[2]].status = "LIKELY"
    /\ heap[batch[2]].ai_confidence = 60

\* C24: a batch whose call raised or whose answer could not be parsed does
\* not end validate_batch: the loop goes on, every batch is submitted to
\* the provider, and the batch after a failed one is updated from its own
\* answer.
C24_FailedBatchDoesNotAbort ==
    /\ [](ai_pc # "raised")
    /\ [][batch_stepped => /\ ai_pc' = "loop"
                           /\ provider_calls' = provider_calls + 1]_vars
    /\ [](ai_pc = "returned" /\ client => provider_calls = total_batches)
    /\ [][(batch_stepped /\ result.kind \in {"raise", "unparsable"}) =>
             \A j \in 1..Len(batch') :
                scored(j)' =>
                   /\ heap'[batch'[j]].ai_confidence = given_confidence(j)'
                   /\ heap'[batch'[j]].status = status_for(given_confidence(j)')]_vars

\* Two batches of one record: the first record is as extraction left it,
\* the second was scored 85 by the second call.
C24_Witness ==
    /\ ai_pc = "returned"
    /\ batch_size = 1
    /\ provider_calls = 2
    /\ heap[1].ai_confidence = 0
    /\ heap[1].ai_reasoning = ""
    /\ scored(1)
    /\ batch = <<2>>
    /\ heap[2].ai_confidence = 85
    /\ heap[2].status = "CONFIRMED"

\* C32: when the parsed answer has fewer items than the batch has records,
\* the records without an item keep their fields and are still returned,
\* and the records with an item get its confidence, its reasoning and the
\* status of its band.
C32_ShortAnswer ==
    /\ [][(batch_stepped /\ result'.kind = "object"
                         /\ Len(result'.items) < Len(batch')) =>
             \A j \in 1..Len(batch') :
                /\ j > Len(result'.items) =>
                      /\ heap'[batch'[j]] = heap[batch'[j]]
                      /\ \E p \in (Len(validated) + 1)..Len(validated') :
                            validated'[p] = batch'[j]
                /\ scored(j)' =>
                      /\ heap'[batch'[j]].ai_confidence = given_confidence(j)'
                      /\ heap'[batch'[j]].ai_reasoning =
                             item_reasoning(result'.items[j])
                      /\ heap'[batch'[j]].status = status_for(given_confidence(j)')
                      /\ \E p \in (Len(validated) + 1)..Len(validated') :
                            validated'[p] = batch'[j]]_vars
    /\ [](ai_pc = "returned" =>
             \A k \in DOMAIN ai_secrets :
                \E p \in DOMAIN validated : validated[p] = ai_secrets[k])

\* A batch of two records got an answer with one item: the first record
\* was scored 85, the second keeps the score 60 of an earlier call.
C32_Witness ==
    /\ ai_pc \in {"loop", "returned"}
    /\ result.kind = "object"
    /\ Len(batch) = 2
    /\ Len(result.items) = 1
    /\ scored(1)
    /\ heap[batch[1]].ai_confidence = 85
    /\ heap[batch[1]].status = "CONFIRMED"
    /\ heap[batch[2]].ai_confidence = 60
    /\ heap[batch[2]].status = "LIKELY"

(***************************************************************************)
(* Properties of the Confidence Validator against any well-formed answer   *)
(* (SpecAIAnswers).                                                        *)
(***************************************************************************)
\* The answer just read holds a result for the id that the prompt gave to
\* position j of the batch.
answered(j) ==
    \E k \in DOMAIN result'.items : result'.items[k].id = j - 1

\* C22: after a parsed answer the record at position j of the batch carries
\* the confidence of the result whose id is j - 1, wherever that result
\* stands in the answer, and a record whose id the answer omits is left as
\* it was.
C22_ResultsMatchedById ==
    [][(batch_stepped /\ result'.kind = "object") =>
          \A j \in 1..Len(batch') :
             /\ \A k \in DOMAIN result'.items :
                   result'.items[k].id = j - 1 =>
                      heap'[batch'[j]].ai_confidence = result'.items[k].confidence
             /\ ~answered(j) => heap'[batch'[j]] = heap[batch'[j]]]_vars

\* C23: the ai_confidence of every record is within 0..100 in every state.
C23_ConfidenceInRange ==
    \A id \in 1..Len(heap) :
        heap[id].ai_confidence >= 0 /\ heap[id].ai_confidence <= 100

(***************************************************************************)
(* Properties of the extraction engines (SpecExtraction).                  *)
(***************************************************************************)
\* The rules of the call under observation whose expression does not compile.
failing_rules ==
    {i \in DOMAIN match_arg.patterns :
        match_arg.patterns[i].pattern \in {"invalid", "overflow"}}

\* C27: a rule whose regular expression fails to compile is skipped:
\* find_matches does not raise, no returned record carries that rule's name,
\* and every match of every rule that compiles is returned.
C27_BadRuleSkipped ==
    (match_pc = "find_matches" /\ failing_rules # {}) =>
        /\ match_ret.kind = "return"
        /\ \A i \in failing_rules : \A n \in DOMAIN match_ret.secrets :
               match_ret.secrets[n].type # match_arg.patterns[i].name
        /\ \A i \in DOMAIN match_arg.patterns :
               match_arg.patterns[i].pattern = "ok" =>
                   \A k \in DOMAIN match_arg.content.pattern :
                       match_arg.content.pattern[k].rule = match_arg.patterns[i].name =>
                           \E n \in DOMAIN match_ret.secrets :
                               /\ match_ret.secrets[n].type = match_arg.patterns[i].name
                               /\ match_ret.secrets[n].value =
                                      match_arg.content.pattern[k].value
                               /\ match_ret.secrets[n].line_number = k

\* The rule of the call under observation named t.
rule_named(t) ==
    CHOOSE r \in {match_arg.patterns[i] : i \in DOMAIN match_arg.patterns} : r.name = t

\* C28: every record an extraction engine returns has status UNVERIFIED,
\* confidence 0 and an unknown live validity; a Pattern Matcher record has
\* regex_match true and its rule's severity, MEDIUM when the rule gives
\* none; an Entropy Analyzer record has regex_match false, severity MEDIUM
\* and the high-entropy type tag.
C28_InitialFields ==
    match_pc # "idle" =>
        \A n \in DOMAIN match_ret.secrets :
            LET s == match_ret.secrets[n]
            IN /\ s.status = "UNVERIFIED"
               /\ s.ai_confidence = 0
               /\ s.api_valid = "None"
               /\ match_pc = "find_matches" =>
                      /\ s.regex_match
                      /\ s.severity = IF rule_named(s.type).severity = "absent"
                                      THEN "MEDIUM"
                                      ELSE rule_named(s.type).severity
               /\ match_pc = "find_high_entropy_strings" =>
                      /\ ~s.regex_match
                      /\ s.severity = "MEDIUM"
                      /\ s.type = HighEntropyType

\* The Pattern Matcher returned two records: one of a rule without a
\* severity entry and one of a rule with one.
C28_Witness ==
    /\ match_pc = "find_matches"
    /\ Len(match_ret.secrets) = 2
    /\ rule_named(match_ret.secrets[1].type).severity = "absent"
    /\ rule_named(match_ret.secrets[2].type).severity # "absent"

\* C33: every record _extract_secrets returns, of either engine, has the
\* entropy of its value: none leaves extraction with the zero default
\* unless its value has entropy 0.
C33_EntropyFilled ==
    match_pc = "_extract_secrets" =>
        \A n \in DOMAIN match_ret.secrets :
            LET s == match_ret.secrets[n]
            IN /\ s.entropy = calculate_entropy(chars(s.value))
               /\ s.entropy = 0 => s.value = "Z"
               /\ s.value = "A" => s.entropy = 400

\* _extract_secrets returned a rule match of entropy 4 bits, a rule match
\* of entropy 0 and a record of the Entropy Analyzer.
C33_Witness ==
    /\ match_pc = "_extract_secrets"
    /\ \E n1, n2, n3 \in DOMAIN match_ret.secrets :
          /\ match_ret.secrets[n1].regex_match
          /\ match_ret.secrets[n1].entropy = 400
          /\ match_ret.secrets[n2].regex_match
          /\ match_ret.secrets[n2].entropy = 0
          /\ ~match_ret.secrets[n3].regex_match
          /\ match_ret.secrets[n3].entropy = 400

(***************************************************************************)
(* Properties of the scan with one batch (SpecOrder).                      *)
(***************************************************************************)
\* The records of list are in the order of their discovery: records enter
\* the heap as they are discovered.
in_discovery_order(list) ==
    \A p, q \in DOMAIN list : p < q => list[p] <= list[q]

\* C29: the records of a scan result are in first-discovery order: units in
\* scan order, within a unit the Pattern Matcher's records before the
\* Entropy Analyzer's, and the lists after the AI stage and after the live
\* stage keep that order.
C29_DiscoveryOrder ==
    /\ \A i, j \in 1..Len(heap) : i < j =>
           /\ heap[i].location <= heap[j].location
           /\ (heap[i].location = heap[j].location /\ heap[j].regex_match) =>
                  heap[i].regex_match
    /\ in_discovery_order(all_secrets)
    /\ in_discovery_order(high_confidence)
    /\ in_discovery_order(finding.secrets)

(***************************************************************************)
(* Further properties of the Live Validator (SpecLive).                    *)
(***************************************************************************)
\* C31: validate_batch returns only after the check of every input record
\* has completed, returns the input records in input order and in the same
\* number, and each task writes only the record it was given.
C31_GatherJoinsAll ==
    /\ [][(api_pc = "gather" /\ api_pc' = "returned") =>
             \A k \in DOMAIN tasks : tasks[k].state = "done"]_vars
    /\ [](api_pc = "returned" =>
             /\ Len(gather_result) = Len(api_secrets)
             /\ Len(api_secrets) = Len(heap)
             /\ \A k \in DOMAIN api_secrets :
                   gather_result[k] = api_secrets[k] /\ api_secrets[k] = k)
    /\ [][\A k \in DOMAIN tasks :
             task_ran(k) =>
                /\ tasks'[k].ret = api_secrets[k]
                /\ \A id \in 1..Len(heap) :
                      id # api_secrets[k] => heap'[id] = heap[id]]_vars

\* A batch of two records returned: the first check was rejected, the
\* second confirmed, and the list handed back is the input list.
C31_Witness ==
    /\ api_pc = "returned"
    /\ Len(tasks) = 2
    /\ tasks[1].outcome.kind = "rejected"
    /\ tasks[2].outcome.kind = "valid"
    /\ gather_result = <<1, 2>>

(***************************************************************************)
(* Further properties of the scan pipeline (SpecScan).                     *)
(***************************************************************************)
\* C34: in the Finding a scan call returns, after a success and after a
\* caught failure, total_secrets_found is the length of the secrets list.
C34_CountMatchesList ==
    scan_pc = "done" => finding.total_secrets_found = Len(finding.secrets)

\* C35: in the result of a scan every record's status agrees with its
\* evidence: a record found valid live is CONFIRMED and CRITICAL, any other
\* record has a numeric confidence and the status of its band (UNVERIFIED
\* when the AI stage never scored it).
C35_StatusAgreesWithEvidence ==
    scan_pc = "done" =>
        \A n \in DOMAIN finding.secrets :
            LET s == heap[finding.secrets[n]]
            IN IF s.api_valid = "True"
               THEN s.status = "CONFIRMED" /\ s.severity = "CRITICAL"
               ELSE /\ s.ai_confidence # NonNumeric
                    /\ in_band(s.ai_confidence, s.status)

\* The fields extraction sets, of a record.
extraction_fields(s) ==
    <<s.type, s.value, s.location, s.line_number, s.context, s.entropy, s.regex_match>>

\* C36: no validator changes an identity or extraction field of a record;
\* a step of the Confidence Validator writes only ai_confidence,
\* ai_reasoning and status, a step of the Live Validator only api_valid,
\* api_details, status and severity.
C36_ValidatorsKeepExtractionFields ==
    [][\A id \in 1..Len(heap) :
          /\ extraction_fields(heap'[id]) = extraction_fields(heap[id])
          /\ ai_vars' # ai_vars =>
                /\ heap'[id].api_valid = heap[id].api_valid
                /\ heap'[id].api_details = heap[id].api_details
                /\ heap'[id].severity = heap[id].severity
          /\ api_vars' # api_vars =>
                /\ heap'[id].ai_confidence = heap[id].ai_confidence
                /\ heap'[id].ai_reasoning = heap[id].ai_reasoning]_vars

\* A scan ended with a rule match that the AI stage scored 85 and the live
\* stage confirmed, its extraction fields as extraction set them.
C36_Witness ==
    /\ scan_pc = "done"
    /\ \E n \in DOMAIN finding.secrets :
          LET s == heap[finding.secrets[n]]
          IN /\ s.ai_confidence = 85
             /\ s.api_valid = "True"
             /\ s.severity = "CRITICAL"
             /\ extraction_fields(s) = <<"github_token", "A", 1, 1, <<1, 1>>, 400, TRUE>>

\* The records both engines find in units 1..n, entropy filled in, before
\* any deduplication.
RECURSIVE accumulated(_, _)
accumulated(us, n) ==
    IF n = 0 THEN <<>>
    ELSE accumulated(us, n - 1)
         \o fill_entropy(find_matches(us[n], location_of(n))
                         \o find_high_entropy_strings(us[n], location_of(n)))

\* No unit read so far has failed.
all_units_extracted ==
    /\ scan_pc = "extract"
    /\ entry = "directory" => finding.total_files_scanned = unit_i

\* C37: deduplicating each unit's records and concatenating in unit order,
\* as the scanner does, gives the sequence that accumulating the records of
\* all units and deduplicating once gives, the units being at pairwise
\* distinct locations.
C37_PerUnitDedupEqualsGlobal ==
    all_units_extracted =>
        /\ \A i, j \in 1..unit_i : i # j => location_of(i) # location_of(j)
        /\ heap = deduplicate_secrets(accumulated(units, unit_i))

\* Two units were extracted, each with the same token of the same rule:
\* both records are kept.
C37_Witness ==
    /\ all_units_extracted
    /\ unit_i = 2
    /\ Len(heap) = 2
    /\ heap[1].type = heap[2].type
    /\ heap[1].value = heap[2].value
    /\ heap[1].location # heap[2].location

(***************************************************************************)
(* Properties of the crawler (SpecCrawl, SpecCrawlFair).                   *)
(***************************************************************************)
\* C38: crawl terminates on every finite link graph, cycles included, and
\* under every pattern of fetch successes and failures.
C38_CrawlTerminates ==
    (crawl_pc = "loop") ~> (crawl_pc = "returned")

\* A crawl of a site with a link cycle returned after the fetch of one URL
\* had failed twice.
C38_Witness ==
    /\ crawl_pc = "returned"
    /\ \E u \in Urls : u # start_url /\ u \in web[start_url] /\ start_url \in web[u]
    /\ \E u \in Urls : fetches[u] = 2 /\ u \notin visited_urls

\* The URLs within n links of the start URL.
RECURSIVE within(_)
within(n) ==
    IF n = 0 THEN {start_url}
    ELSE within(n - 1) \cup UNION {web[u] : u \in within(n - 1)}

\* C39: crawl returns at most max_pages pages, none further than max_depth
\* links from the start URL, stores the content of a URL at most once and
\* never fetches a URL that is already visited.
C39_CrawlLimits ==
    /\ [](crawl_pc # "idle" =>
             /\ Cardinality(DOMAIN pages_content) <= max_pages
             /\ DOMAIN pages_content \subseteq within(max_depth)
             /\ DOMAIN pages_content \subseteq visited_urls)
    /\ [][crawl_pc = "loop" =>
             /\ \A u \in Urls :
                   fetches'[u] # fetches[u] =>
                      u \notin visited_urls /\ u \notin DOMAIN pages_content
             /\ \A u \in DOMAIN pages_content :
                   u \in DOMAIN pages_content' /\ pages_content'[u] = pages_content[u]]_vars

\* A crawl returned all three pages of a site in which the last page was
\* queued twice, the first fetch of a page having failed.
C39_Witness ==
    /\ crawl_pc = "returned"
    /\ Cardinality(DOMAIN pages_content) = 3
    /\ \E u \in Urls : fetches[u] = 2 /\ u \in visited_urls

====
